---------------------------- MODULE Spec2Model ----------------------------
(***************************************************************************)
(* Placement engine of living-hive: hex-grid collision resolution, the     *)
(* UMAP placement worker and the useUMAPPlacement hook that talks to it.   *)
(*                                                                         *)
(* The specifications of this module:                                      *)
(*   HexSpec     findAvailableHex applied to bounded inputs                *)
(*   WorkerSpec  the worker's message listener and computePlacement        *)
(*   HookSpec    the hook's computePlacement / handleMessage / timeout     *)
(*               protocol against a worker                                 *)
(*   UtilSpec    one call of a function of the utilities (hex.ts,          *)
(*               themes.ts, the worker's nNeighbors) on bounded arguments  *)
(*   GenSpec     the calls of one StoryDataGenerator                       *)
(*   EmbSpec     the caching useEmbeddings hook                            *)
(*   RetrySpec   one call of a function with the fetch retry loop          *)
(*               (generateEmbeddingsBatchClient, generateThemes)           *)
(* Each specification leaves the variables of the others untouched.        *)
(***************************************************************************)
EXTENDS Integers, Sequences, FiniteSets, TLC

VARIABLES
    \* ---- HexSpec: one call of findAvailableHex
    hx_center,      \* the `center` argument
    hx_occupied,    \* the `occupied` argument: a set of keys "q,r"
    hx_maxRadius,   \* the `maxRadius` argument
    hx_result,      \* the value returned (NULL for null)
    hx_pc,          \* "input" before the call, "returned" after it
    \* ---- WorkerSpec: the worker's message listener
    wk_msg,         \* event.data of the message being handled
    wk_pc,          \* where the listener stands: "received", "loading",
                    \* "loaded", "placing", "done", "idle"
    wk_UMAPCtor,    \* the module-level UMAPCtor cache: TRUE once loaded
    wk_searchRadius,\* the maxRadius placeStory passes to findAvailableHex
    wk_umapCoords,  \* umap.fit's result: one point per story
    wk_sorted,      \* sortedStories
    wk_idx,         \* position of the placement loop in sortedStories
    wk_placements,  \* the placements Map, as its entries in insertion order
    wk_occupied,    \* occupiedCells
    wk_nullFor,     \* history: ids for which findAvailableHex returned null
    wk_response,    \* the last message posted for wk_msg (NULL if none yet)
    wk_received,    \* history: messages received so far
    wk_posted,      \* history: messages posted so far
    \* ---- HookSpec: the useUMAPPlacement hook and the channel to its worker
    hk_mounted,     \* the component using the hook is mounted
    hk_workerRef,   \* workerRef.current: "worker" or "null"
    hk_terminated,  \* the worker was terminated
    hk_loading,     \* the loading state
    hk_error,       \* the error state ("null" for null)
    hk_calls,       \* the calls of the hook's computePlacement so far
    hk_inbox,       \* requests posted to the worker and not yet handled
    hk_outbox,      \* messages the worker posted, not yet dispatched
    hk_foreign,     \* history: messages of unrecognised type posted
    \* ---- UtilSpec: one call of a utility function
    ut_call,        \* the function called and its arguments
    ut_result,      \* the value returned (NULL before the call)
    ut_pc,          \* "input" before the call, "returned" after it
    \* ---- GenSpec: one StoryDataGenerator
    gn_lastEmbeddings,  \* this.lastEmbeddings (NULL for null)
    gn_lastThemes,      \* this.lastThemes (NULL for null)
    gn_out,             \* what assignStoriesToThemes() did, if it was the
                        \* last call: NULL, Threw or the map returned
    gn_histEmbeddings,  \* history: the embeddings the latest successful
                        \* generate call had to store
    gn_histThemes,      \* history: the themes the latest successful
                        \* generateThemes call produced
    gn_calls,           \* history: calls made so far
    gn_last,            \* history: how the last call ended: "none",
                        \* "resolved", "rejected", "returned" or "threw"
    \* ---- EmbSpec: one useEmbeddings hook
    em_cache,       \* cacheRef.current: per cache key, the request whose
                    \* result is cached (0 for no entry)
    em_inFlight,    \* inFlightRef.current: per cache key, the request whose
                    \* promise is stored (0 for no entry)
    em_requests,    \* the generateEmbeddings requests issued so far, each
                    \* with its key and "pending", "fulfilled" or "rejected"
    em_calls,       \* the calls of generateEmbeddingsForStories so far
    em_loading,     \* the loading state
    em_error,       \* the error state ("null" for null)
    \* ---- RetrySpec: one call of a function with the retry loop
    rt_fn,          \* the function called
    rt_pc,          \* "start", "backoff", "fetch", "awaiting", "rateWait",
                    \* "done"
    rt_attempt,     \* the loop variable `attempt`
    rt_responses,   \* history: what each fetch so far ended with
    rt_lastError,   \* lastError ("null" for null)
    rt_outcome      \* how the call's promise settled (NULL before)

hexVars == <<hx_center, hx_occupied, hx_maxRadius, hx_result, hx_pc>>

workerVars ==
    <<wk_msg, wk_pc, wk_UMAPCtor, wk_searchRadius, wk_umapCoords, wk_sorted,
      wk_idx, wk_placements, wk_occupied, wk_nullFor, wk_response,
      wk_received, wk_posted>>

hookVars ==
    <<hk_mounted, hk_workerRef, hk_terminated, hk_loading, hk_error, hk_calls,
      hk_inbox, hk_outbox, hk_foreign>>

utilVars == <<ut_call, ut_result, ut_pc>>

genVars ==
    <<gn_lastEmbeddings, gn_lastThemes, gn_out, gn_histEmbeddings,
      gn_histThemes, gn_calls, gn_last>>

embVars ==
    <<em_cache, em_inFlight, em_requests, em_calls, em_loading, em_error>>

retryVars ==
    <<rt_fn, rt_pc, rt_attempt, rt_responses, rt_lastError, rt_outcome>>

vars == <<hexVars, workerVars, hookVars, utilVars, genVars, embVars, retryVars>>

(***************************************************************************)
(* Bounds of the model.                                                    *)
(***************************************************************************)
\* largest maxRadius argument tried on findAvailableHex
MaxRadius == 2

\* largest number of stories in one worker request
MaxStories == 3

\* placeStory searches with maxRadius 200, a disk of 120601 cells that no
\* checkable request exhausts; the model runs the worker with every search
\* radius 0..MaxSearchRadius in its place
MaxSearchRadius == 1

\* messages one worker receives in a run
MaxMessages == 2

\* calls of the hook's computePlacement in a run
MaxCalls == 3

\* messages of unrecognised type a worker script posts in a run
MaxForeign == 1

(***************************************************************************)
(* Hex utilities (utils/hex.ts; the worker carries identical copies).      *)
(***************************************************************************)
\* JavaScript null
NULL == [null |-> TRUE]

Hex(q, r) == [q |-> q, r |-> r]

\* the key `${q},${r}` under which a cell is stored in an occupied set; the
\* decimal rendering of two integers joined by a comma is injective, so the
\* pair stands for the string
HexKey(hex) == <<hex.q, hex.r>>

Abs(x) == IF x < 0 THEN -x ELSE x

directions ==
    << Hex(1, 0), Hex(1, -1), Hex(0, -1), Hex(-1, 0), Hex(-1, 1), Hex(0, 1) >>

\* getHexNeighbors(hex)[i] of the source is getHexNeighbors(hex)[i + 1] here
getHexNeighbors(hex) ==
    [i \in 1..6 |-> Hex(hex.q + directions[i].q, hex.r + directions[i].r)]

hexDistance(a, b) ==
    (Abs(a.q - b.q) + Abs(a.q + a.r - b.q - b.r) + Abs(a.r - b.r)) \div 2

\* mutant: the ring start reached through neighbour index 3 instead of 4
MoveToRingStart_Dir3(current, i) ==
    Hex(current.q - i, current.r)

RECURSIVE MoveToRingStart(_, _)
\* "Move to start of ring": `i` steps left, each to neighbour index 4
MoveToRingStart(current, i) ==
    IF i = 0 THEN current
    ELSE MoveToRingStart(getHexNeighbors(current)[4 + 1], i - 1)

RECURSIVE RingWalkFrom(_, _, _)
\* "Walk around the ring": the nested loops over direction 0..5 and
\* i < radius, flattened to k = direction * radius + i.  The result is the
\* sequence of cells the loop tests, in test order.
RingWalkFrom(current, radius, k) ==
    IF k = 6 * radius THEN << >>
    ELSE <<current>> \o
         RingWalkFrom(getHexNeighbors(current)[(k \div radius) + 1], radius, k + 1)

\* mutant: one step too many on the way to the ring start
RingWalk_WrongStart(center, radius) ==
    RingWalkFrom(getHexNeighbors(MoveToRingStart(center, radius))[4 + 1], radius, 0)

RingWalk(center, radius) ==
    RingWalkFrom(MoveToRingStart(center, radius), radius, 0)

\* the first cell of `cells` whose key is not in `occupied`, NULL if none:
\* the `if (!occupied.has(key)) return current` of the ring walk
FirstFree(cells, occupied) ==
    LET free == {i \in DOMAIN cells : HexKey(cells[i]) \notin occupied}
    IN  IF free = {} THEN NULL
        ELSE cells[CHOOSE i \in free : \A j \in free : i <= j]

RECURSIVE SearchRings(_, _, _, _)
\* the loop `for (let radius = 1; radius <= maxRadius; radius++)`
SearchRings(center, occupied, radius, maxRadius) ==
    IF radius > maxRadius THEN NULL
    ELSE LET hit == FirstFree(RingWalk(center, radius), occupied)
         IN  IF hit # NULL THEN hit
             ELSE SearchRings(center, occupied, radius + 1, maxRadius)

\* mutant: the "check center first" test left out
findAvailableHex_NoCenterCheck(center, occupied, maxRadius) ==
    SearchRings(center, occupied, 1, maxRadius)

\* mutant: the ring loop starts at radius 2
findAvailableHex_SkipRing1(center, occupied, maxRadius) ==
    IF HexKey(center) \notin occupied THEN center
    ELSE SearchRings(center, occupied, 2, maxRadius)

findAvailableHex(center, occupied, maxRadius) ==
    IF HexKey(center) \notin occupied THEN center
    ELSE SearchRings(center, occupied, 1, maxRadius)

(***************************************************************************)
(* Numbers.  The worker computes in floating point; the model computes the *)
(* same expressions in exact, reduced fractions [n, d] with d > 0, and     *)
(* takes a fixed fraction for Math.sqrt(3).                                *)
(***************************************************************************)
RECURSIVE GCD(_, _)
GCD(m, k) == IF k = 0 THEN m ELSE GCD(k, m % k)

Rat(num, den) ==
    LET c == GCD(Abs(num), den) IN [n |-> num \div c, d |-> den \div c]

RatInt(i) == [n |-> i, d |-> 1]

RatNeg(a) == [n |-> -a.n, d |-> a.d]

RatAdd(a, b) ==
    LET g == GCD(a.d, b.d)
    IN  Rat(a.n * (b.d \div g) + b.n * (a.d \div g), (a.d \div g) * b.d)

RatSub(a, b) == RatAdd(a, RatNeg(b))

RatMul(a, b) ==
    LET g1 == GCD(Abs(a.n), b.d)
        g2 == GCD(Abs(b.n), a.d)
    IN  Rat((a.n \div g1) * (b.n \div g2), (a.d \div g2) * (b.d \div g1))

\* a / b for b # 0
RatDiv(a, b) ==
    RatMul(a, IF b.n > 0 THEN [n |-> b.d, d |-> b.n] ELSE [n |-> -b.d, d |-> -b.n])

RatLess(a, b) ==
    LET g == GCD(a.d, b.d) IN a.n * (b.d \div g) < b.n * (a.d \div g)

RatAbs(a) == [n |-> Abs(a.n), d |-> a.d]

RatMax(a, b) == IF RatLess(a, b) THEN b ELSE a

RatMin(a, b) == IF RatLess(b, a) THEN b ELSE a

\* Math.round: the nearest integer, a half rounded up
RatRound(a) == (2 * a.n + a.d) \div (2 * a.d)

\* Math.sqrt(3), to three decimals
Sqrt3 == Rat(1732, 1000)

(***************************************************************************)
(* The placement worker (workers/umap-placement.worker.ts).                *)
(***************************************************************************)
DEFAULT_CONFIG ==
    [canvasWidth |-> 900, canvasHeight |-> 600, hexRadius |-> 14, margin |-> 20]

\* mutant: the three coordinates rounded, none recomputed
cubeRound_NoFix(cube) == Hex(RatRound(cube.q), RatRound(cube.r))

cubeRound(cube) ==
    LET rq == RatRound(cube.q)
        rr == RatRound(cube.r)
        rs == RatRound(cube.s)
        qDiff == RatAbs(RatSub(RatInt(rq), cube.q))
        rDiff == RatAbs(RatSub(RatInt(rr), cube.r))
        sDiff == RatAbs(RatSub(RatInt(rs), cube.s))
    IN  IF RatLess(rDiff, qDiff) /\ RatLess(sDiff, qDiff) THEN Hex(-rr - rs, rr)
        ELSE IF RatLess(sDiff, rDiff) THEN Hex(rq, -rq - rs)
        ELSE Hex(rq, rr)

pixelToHex(pixel, hexRadius) ==
    LET q == RatDiv(RatMul(Rat(2, 3), pixel.x), RatInt(hexRadius))
        r == RatDiv(RatAdd(RatMul(Rat(-1, 3), pixel.x),
                           RatMul(RatDiv(Sqrt3, RatInt(3)), pixel.y)),
                    RatInt(hexRadius))
    IN  cubeRound([q |-> q, r |-> r, s |-> RatSub(RatNeg(q), r)])

\* mutant: the quotients returned without the clamp to [0, 1]
normalizeUMAP_NoClamp(x, y, norm) ==
    [nx |-> RatDiv(RatSub(x, RatInt(norm.min_x)), RatInt(norm.max_x - norm.min_x)),
     ny |-> RatDiv(RatSub(y, RatInt(norm.min_y)), RatInt(norm.max_y - norm.min_y))]

\* for norm.max > norm.min
normalizeUMAP(x, y, norm) ==
    LET nx == RatDiv(RatSub(x, RatInt(norm.min_x)), RatInt(norm.max_x - norm.min_x))
        ny == RatDiv(RatSub(y, RatInt(norm.min_y)), RatInt(norm.max_y - norm.min_y))
    IN  [nx |-> RatMax(RatInt(0), RatMin(RatInt(1), nx)),
         ny |-> RatMax(RatInt(0), RatMin(RatInt(1), ny))]

\* placeStory up to `const py = ...`: the pixel of a projected point
PlacePixel(umapX, umapY, norm, config) ==
    LET n == normalizeUMAP(umapX, umapY, norm)
    IN  [px |-> RatAdd(RatInt(config.margin),
                       RatMul(n.nx, RatInt(config.canvasWidth - 2 * config.margin))),
         py |-> RatAdd(RatInt(config.margin),
                       RatMul(RatSub(RatInt(1), n.ny),
                              RatInt(config.canvasHeight - 2 * config.margin)))]

\* placeStory up to `const idealHex = pixelToHex(...)`
IdealHex(umapX, umapY, norm, config) ==
    LET pixel == PlacePixel(umapX, umapY, norm, config)
        centerX == Rat(config.canvasWidth, 2)
        centerY == Rat(config.canvasHeight, 2)
    IN  pixelToHex([x |-> RatSub(pixel.px, centerX), y |-> RatSub(pixel.py, centerY)],
                   config.hexRadius)

\* the norm of a request
RequestNorm == [min_x |-> 0, max_x |-> 40, min_y |-> 0, max_y |-> 40]

\* the points umap.fit may give a story: (20,20) falls on hex (0,0),
\* (19,20) on (-1,1), the first ring cell the search from (0,0) visits, and
\* (20,45) lies outside the norm
UMAPPoints == {<<20, 20>>, <<19, 20>>, <<20, 45>>}

\* IdealHex on every input the requests above can bring, computed once
IdealHexTable ==
    [args \in {<<RatInt(p[1]), RatInt(p[2]), RequestNorm, DEFAULT_CONFIG>> :
                 p \in UMAPPoints} |->
        IdealHex(args[1], args[2], args[3], args[4])]

\* mutant: the ideal hex taken without looking at occupiedCells
placeStory_NoResolve(umapX, umapY, norm, occupiedCells, config, maxRadius) ==
    IdealHexTable[<<umapX, umapY, norm, config>>]

\* maxRadius is the literal 200 of the source
placeStory(umapX, umapY, norm, occupiedCells, config, maxRadius) ==
    LET idealHex == IdealHexTable[<<umapX, umapY, norm, config>>]
        availableHex == findAvailableHex(idealHex, occupiedCells, maxRadius)
    IN  IF availableHex = NULL THEN idealHex ELSE availableHex

\* cluster_id (`cluster_id?: string`): 0 stands for undefined, k > 0 for the
\* k-th string in localeCompare order; the first string is the empty one
ClusterIds == {0, 1, 2, 3}

\* `if (cluster_id)`: undefined and the empty string are falsy
Truthy(cluster_id) == cluster_id > 1

\* the comparator of `[...stories].sort(...)`
CompareStories(a, b) ==
    IF Truthy(a.cluster_id) /\ Truthy(b.cluster_id)
    THEN (IF a.cluster_id < b.cluster_id THEN -1
          ELSE IF a.cluster_id > b.cluster_id THEN 1 ELSE 0)
    ELSE IF Truthy(a.cluster_id) THEN -1
    ELSE IF Truthy(b.cluster_id) THEN 1
    ELSE 0

RECURSIVE InsertSorted(_, _)
\* x put behind every element that does not compare greater than it
InsertSorted(sorted, x) ==
    IF sorted = << >> THEN <<x>>
    ELSE IF CompareStories(Head(sorted), x) > 0 THEN <<x>> \o sorted
    ELSE <<Head(sorted)>> \o InsertSorted(Tail(sorted), x)

RECURSIVE SortStories(_)
\* Array.prototype.sort is stable: equal elements keep their input order
SortStories(stories) ==
    IF stories = << >> THEN << >>
    ELSE InsertSorted(SortStories(SubSeq(stories, 1, Len(stories) - 1)),
                      stories[Len(stories)])

\* storyUMAP.get(id): the point of the last story carrying that id
StoryUMAP(stories, umapCoords, id) ==
    LET at == {i \in DOMAIN stories : stories[i].id = id}
    IN  umapCoords[CHOOSE i \in at : \A j \in at : j <= i]

\* Map.prototype.set on the entries in insertion order
MapSet(entries, key, value) ==
    IF \E i \in DOMAIN entries : entries[i][1] = key
    THEN [i \in DOMAIN entries |->
              IF entries[i][1] = key THEN <<key, value>> ELSE entries[i]]
    ELSE Append(entries, <<key, value>>)

\* the stories of a request: ids 1..n, any cluster ids
StoryLists ==
    UNION {[1..n -> {[id |-> i, cluster_id |-> c] : i \in 1..n, c \in ClusterIds}]
               : n \in 0..MaxStories}

Messages ==
    {[type |-> "computePlacement", stories |-> st,
      norm |-> RequestNorm, config |-> DEFAULT_CONFIG] :
         st \in {s \in StoryLists : \A i \in DOMAIN s : s[i].id = i}}
    \cup {[type |-> "other", stories |-> << >>,
           norm |-> RequestNorm, config |-> DEFAULT_CONFIG]}

ErrorMessage(text) == [type |-> "error", error |-> text]

WorkerIdle ==
    /\ wk_msg = NULL
    /\ wk_pc = "unused"
    /\ wk_UMAPCtor = FALSE
    /\ wk_searchRadius = 0
    /\ wk_umapCoords = << >>
    /\ wk_sorted = << >>
    /\ wk_idx = 0
    /\ wk_placements = << >>
    /\ wk_occupied = {}
    /\ wk_nullFor = {}
    /\ wk_response = NULL
    /\ wk_received = 0
    /\ wk_posted = 0

(***************************************************************************)
(* HexSpec: findAvailableHex on bounded inputs.                            *)
(***************************************************************************)
\* the centers tried
HexCenters == {Hex(0, 0), Hex(-1, 1)}

\* every cell at hex distance <= radius from center
Disk(center, radius) ==
    {h \in {Hex(center.q + dq, center.r + dr) :
                dq \in -radius..radius, dr \in -radius..radius} :
        hexDistance(center, h) <= radius}

\* every cell at hex distance exactly radius from center
Ring(center, radius) ==
    {h \in Disk(center, radius) : hexDistance(center, h) = radius}

\* the cells an occupied set is drawn from: both centers with all their
\* neighbours, so that a whole disk of radius 1 can be occupied
HexUniverse == UNION {Disk(c, 1) : c \in HexCenters}

HookIdle ==
    /\ hk_mounted = FALSE
    /\ hk_workerRef = "null"
    /\ hk_terminated = FALSE
    /\ hk_loading = FALSE
    /\ hk_error = "null"
    /\ hk_calls = << >>
    /\ hk_inbox = << >>
    /\ hk_outbox = << >>
    /\ hk_foreign = 0

UtilIdle ==
    /\ ut_call = [fn |-> "none"]
    /\ ut_result = NULL
    /\ ut_pc = "unused"

GenIdle ==
    /\ gn_lastEmbeddings = NULL
    /\ gn_lastThemes = NULL
    /\ gn_out = NULL
    /\ gn_histEmbeddings = NULL
    /\ gn_histThemes = NULL
    /\ gn_calls = 0
    /\ gn_last = "none"

\* the cache keys of the calls tried
EmbKeys == {1, 2}

EmbIdle ==
    /\ em_cache = [k \in EmbKeys |-> 0]
    /\ em_inFlight = [k \in EmbKeys |-> 0]
    /\ em_requests = << >>
    /\ em_calls = << >>
    /\ em_loading = FALSE
    /\ em_error = "null"

RetryIdle ==
    /\ rt_fn = "none"
    /\ rt_pc = "unused"
    /\ rt_attempt = 0
    /\ rt_responses = << >>
    /\ rt_lastError = "null"
    /\ rt_outcome = NULL

HexIdle ==
    /\ hx_center = Hex(0, 0)
    /\ hx_occupied = {}
    /\ hx_maxRadius = 0
    /\ hx_result = NULL
    /\ hx_pc = "unused"

HexInit ==
    /\ GenIdle
    /\ EmbIdle
    /\ RetryIdle
    /\ WorkerIdle
    /\ HookIdle
    /\ UtilIdle
    /\ hx_center \in HexCenters
    /\ hx_occupied \in SUBSET {HexKey(h) : h \in HexUniverse}
    /\ hx_maxRadius \in 0..MaxRadius
    /\ hx_result = NULL
    /\ hx_pc = "input"

HexFind ==
    /\ hx_pc = "input"
    /\ hx_result' = findAvailableHex(hx_center, hx_occupied, hx_maxRadius)
    /\ hx_pc' = "returned"
    /\ UNCHANGED <<hx_center, hx_occupied, hx_maxRadius>>
    /\ UNCHANGED <<workerVars, hookVars, utilVars, genVars,
                   embVars, retryVars>>

HexNext == HexFind

HexSpec == HexInit /\ [][HexNext]_vars

(***************************************************************************)
(* C3: findAvailableHex never returns a cell whose key is in occupied, and *)
(* it returns center itself whenever center is not in occupied.            *)
(***************************************************************************)
C3_NeverOccupied ==
    hx_pc = "returned" =>
        /\ hx_result # NULL => HexKey(hx_result) \notin hx_occupied
        /\ HexKey(hx_center) \notin hx_occupied => hx_result = hx_center

\* both cases happen: a free center returned as is is covered by the second
\* conjunct; here an occupied center sends the search to a ring cell
C3_Witness ==
    /\ hx_pc = "returned"
    /\ HexKey(hx_center) \in hx_occupied
    /\ hx_result # NULL
    /\ hx_result # hx_center
    /\ Cardinality(hx_occupied) >= 3

(***************************************************************************)
(* C4: findAvailableHex returns null if and only if every cell at hex      *)
(* distance <= maxRadius from center (center included) is in occupied; the *)
(* ring walk for each radius visits exactly the 6*radius cells at hex      *)
(* distance radius from center.                                            *)
(***************************************************************************)
C4_NullIffDiskFull ==
    hx_pc = "returned" =>
        /\ (hx_result = NULL) <=>
               (\A h \in Disk(hx_center, hx_maxRadius) : HexKey(h) \in hx_occupied)
        /\ \A radius \in 1..hx_maxRadius :
               LET walk == RingWalk(hx_center, radius)
               IN  /\ Len(walk) = 6 * radius
                   /\ {walk[i] : i \in DOMAIN walk} = Ring(hx_center, radius)

C4_Witness ==
    /\ hx_pc = "returned"
    /\ hx_maxRadius >= 1
    /\ hx_result = NULL

(***************************************************************************)
(* C5: whenever findAvailableHex returns a cell, no cell outside occupied  *)
(* has a strictly smaller hexDistance to center than the returned cell.    *)
(***************************************************************************)
C5_NearestFree ==
    (hx_pc = "returned" /\ hx_result # NULL) =>
        \A h \in Disk(hx_center, hexDistance(hx_center, hx_result)) :
            HexKey(h) \notin hx_occupied =>
                hexDistance(hx_center, h) >= hexDistance(hx_center, hx_result)

\* the whole disk of radius 1 is taken and the cell comes from ring 2
C5_Witness ==
    /\ hx_pc = "returned"
    /\ hx_result # NULL
    /\ hexDistance(hx_center, hx_result) = 2

(***************************************************************************)
(* C6: with center (0,0) occupied and maxRadius = 1, findAvailableHex      *)
(* returns the first free neighbour when the six neighbours are taken in   *)
(* getHexNeighbors direction-index order.                                  *)
(***************************************************************************)
\* cell is the first free neighbour of (0,0) when the neighbours are taken in
\* the given order of source indices
IsFirstFreeNeighbour(cell, order) ==
    LET nb(i) == getHexNeighbors(Hex(0, 0))[order[i] + 1]
    IN  \E i \in 1..6 :
            /\ cell = nb(i)
            /\ HexKey(nb(i)) \notin hx_occupied
            /\ \A j \in 1..(i - 1) : HexKey(nb(j)) \in hx_occupied

C6_Case ==
    /\ hx_pc = "returned"
    /\ hx_center = Hex(0, 0)
    /\ hx_maxRadius = 1
    /\ HexKey(Hex(0, 0)) \in hx_occupied
    /\ \E h \in Ring(Hex(0, 0), 1) : HexKey(h) \notin hx_occupied

\* the claim as stated: order 4,0,1,2,3,5
C6_Original ==
    C6_Case => IsFirstFreeNeighbour(hx_result, <<4, 0, 1, 2, 3, 5>>)

\* the claim as amended: order 4,5,0,1,2,3
C6_WalkOrder ==
    C6_Case => IsFirstFreeNeighbour(hx_result, <<4, 5, 0, 1, 2, 3>>)

\* neighbour 4 taken, neighbours 5 and 0 free: the two orders disagree
C6_Witness ==
    /\ C6_Case
    /\ HexKey(getHexNeighbors(Hex(0, 0))[4 + 1]) \in hx_occupied
    /\ HexKey(getHexNeighbors(Hex(0, 0))[0 + 1]) \notin hx_occupied
    /\ hx_result = getHexNeighbors(Hex(0, 0))[5 + 1]

(***************************************************************************)
(* WorkerSpec: the worker's message listener.  A run handles up to         *)
(* MaxMessages messages one after the other; the listener's synchronous    *)
(* code is cut into steps at the await of loadUMAP and at each iteration   *)
(* of the placement loop.                                                  *)
(***************************************************************************)
WorkerInit ==
    /\ GenIdle
    /\ EmbIdle
    /\ RetryIdle
    /\ HexIdle
    /\ HookIdle
    /\ UtilIdle
    /\ wk_msg \in Messages
    /\ wk_pc = "received"
    /\ wk_UMAPCtor = FALSE
    /\ wk_searchRadius \in 0..MaxSearchRadius
    /\ wk_umapCoords = << >>
    /\ wk_sorted = << >>
    /\ wk_idx = 0
    /\ wk_placements = << >>
    /\ wk_occupied = {}
    /\ wk_nullFor = {}
    /\ wk_response = NULL
    /\ wk_received = 1
    /\ wk_posted = 0

\* self.postMessage(message), which ends the listener
WkPostAndStop(message) ==
    /\ wk_response' = message
    /\ wk_posted' = wk_posted + 1
    /\ wk_pc' = "done"

WkLocalUnchanged ==
    UNCHANGED <<wk_msg, wk_searchRadius, wk_umapCoords, wk_sorted, wk_idx,
                wk_placements, wk_occupied, wk_nullFor, wk_received>>

\* the listener up to `await loadUMAP()`: a message that is no placement
\* request is answered with an error, an empty request with an empty result
WkStart ==
    /\ wk_pc = "received"
    /\ IF wk_msg.type # "computePlacement"
       THEN WkPostAndStop(ErrorMessage("Unknown message type"))
       ELSE IF Len(wk_msg.stories) = 0
       THEN WkPostAndStop([type |-> "placementResult", placements |-> << >>])
       ELSE /\ wk_pc' = "loading"
            /\ UNCHANGED <<wk_response, wk_posted>>
    /\ WkLocalUnchanged
    /\ UNCHANGED <<wk_UMAPCtor, hexVars, hookVars, utilVars, genVars,
                   embVars, retryVars>>

\* loadUMAP throws: the import fails or holds no UMAP class
WkLoadFails ==
    /\ wk_pc = "loading"
    /\ ~wk_UMAPCtor
    /\ WkPostAndStop(ErrorMessage("Failed to load UMAP library"))
    /\ WkLocalUnchanged
    /\ UNCHANGED <<wk_UMAPCtor, hexVars, hookVars, utilVars, genVars,
                   embVars, retryVars>>

\* loadUMAP returns the constructor and caches it
WkLoaded ==
    /\ wk_pc = "loading"
    /\ wk_UMAPCtor' = TRUE
    /\ wk_pc' = "loaded"
    /\ WkLocalUnchanged
    /\ UNCHANGED <<wk_response, wk_posted, hexVars, hookVars, utilVars, genVars,
                   embVars, retryVars>>

\* mutant: the throw for fewer than 2 stories escapes the listener
WkTooFew_Uncaught ==
    /\ wk_pc = "loaded"
    /\ Len(wk_msg.stories) < 2
    /\ wk_pc' = "done"
    /\ WkLocalUnchanged
    /\ UNCHANGED <<wk_response, wk_posted, wk_UMAPCtor, hexVars, hookVars, utilVars, genVars,
                   embVars, retryVars>>

\* `throw new Error('Need at least 2 stories to compute UMAP')`, caught
WkTooFew ==
    /\ wk_pc = "loaded"
    /\ Len(wk_msg.stories) < 2
    /\ WkPostAndStop(ErrorMessage("Need at least 2 stories to compute UMAP"))
    /\ WkLocalUnchanged
    /\ UNCHANGED <<wk_UMAPCtor, hexVars, hookVars, utilVars, genVars,
                   embVars, retryVars>>

\* the UMAP constructor or umap.fit throws
WkFitThrows ==
    /\ wk_pc = "loaded"
    /\ Len(wk_msg.stories) >= 2
    /\ WkPostAndStop(ErrorMessage("umap"))
    /\ WkLocalUnchanged
    /\ UNCHANGED <<wk_UMAPCtor, hexVars, hookVars, utilVars, genVars,
                   embVars, retryVars>>

\* umap.fit returns one point per story (any points: the projection is
\* stochastic); the stories are sorted for the placement loop
WkFit ==
    /\ wk_pc = "loaded"
    /\ Len(wk_msg.stories) >= 2
    /\ wk_umapCoords' \in [DOMAIN wk_msg.stories -> UMAPPoints]
    /\ wk_sorted' = SortStories(wk_msg.stories)
    /\ wk_idx' = 1
    /\ wk_placements' = << >>
    /\ wk_occupied' = {}
    /\ wk_pc' = "placing"
    /\ UNCHANGED <<wk_msg, wk_searchRadius, wk_nullFor, wk_received,
                   wk_response, wk_posted, wk_UMAPCtor, hexVars, hookVars, utilVars, genVars,
                   embVars, retryVars>>

\* the story the placement loop stands on, and its storyUMAP entry
WkStory == wk_sorted[wk_idx]

WkUmapCoord == StoryUMAP(wk_msg.stories, wk_umapCoords, WkStory.id)

\* the ideal hex of that story
WkIdealHex ==
    IdealHexTable[<<RatInt(WkUmapCoord[1]), RatInt(WkUmapCoord[2]),
                    wk_msg.norm, wk_msg.config>>]

\* `const hexCoord = placeStory(...)` for that story
WkHexCoord ==
    placeStory(RatInt(WkUmapCoord[1]), RatInt(WkUmapCoord[2]), wk_msg.norm,
               wk_occupied, wk_msg.config, wk_searchRadius)

\* mutant: the cell is recorded but not marked occupied
WkPlace_NoMark ==
    /\ wk_pc = "placing"
    /\ wk_idx <= Len(wk_sorted)
    /\ wk_placements' = MapSet(wk_placements, WkStory.id, WkHexCoord)
    /\ wk_idx' = wk_idx + 1
    /\ UNCHANGED <<wk_msg, wk_pc, wk_searchRadius, wk_umapCoords, wk_sorted,
                   wk_occupied, wk_nullFor, wk_received, wk_response,
                   wk_posted, wk_UMAPCtor, hexVars, hookVars, utilVars, genVars,
                   embVars, retryVars>>

\* one iteration of `for (const story of sortedStories)`
WkPlace ==
    /\ wk_pc = "placing"
    /\ wk_idx <= Len(wk_sorted)
    /\ LET hexCoord == WkHexCoord
       IN  /\ wk_placements' = MapSet(wk_placements, WkStory.id, hexCoord)
           /\ wk_occupied' = wk_occupied \cup {HexKey(hexCoord)}
    /\ wk_nullFor' =
           IF findAvailableHex(WkIdealHex, wk_occupied, wk_searchRadius) = NULL
           THEN wk_nullFor \cup {WkStory.id}
           ELSE wk_nullFor
    /\ wk_idx' = wk_idx + 1
    /\ UNCHANGED <<wk_msg, wk_pc, wk_searchRadius, wk_umapCoords, wk_sorted,
                   wk_received, wk_response, wk_posted, wk_UMAPCtor, hexVars, hookVars, utilVars, genVars,
                   embVars, retryVars>>

\* the loop is over: computePlacement returns and the result is posted
WkPostResult ==
    /\ wk_pc = "placing"
    /\ wk_idx > Len(wk_sorted)
    /\ WkPostAndStop(
           [type |-> "placementResult",
            placements |-> wk_placements,
            umapCoords |-> [i \in DOMAIN wk_msg.stories |->
                               [id |-> wk_msg.stories[i].id,
                                x |-> wk_umapCoords[i][1],
                                y |-> wk_umapCoords[i][2]]]])
    /\ WkLocalUnchanged
    /\ UNCHANGED <<wk_UMAPCtor, hexVars, hookVars, utilVars, genVars,
                   embVars, retryVars>>

\* the steps of the listener for the message at hand
WkStep ==
    \/ WkStart
    \/ WkLoadFails
    \/ WkLoaded
    \/ WkTooFew
    \/ WkFitThrows
    \/ WkFit
    \/ WkPlace
    \/ WkPostResult

\* the listener has returned: its locals are gone, only the UMAPCtor cache
\* outlives the message
WkReturn ==
    /\ wk_pc = "done"
    /\ wk_pc' = "idle"
    /\ wk_msg' = NULL
    /\ wk_umapCoords' = << >>
    /\ wk_sorted' = << >>
    /\ wk_idx' = 0
    /\ wk_placements' = << >>
    /\ wk_occupied' = {}
    /\ wk_nullFor' = {}
    /\ wk_response' = NULL
    /\ UNCHANGED <<wk_searchRadius, wk_received, wk_posted, wk_UMAPCtor,
                   hexVars, hookVars, utilVars, genVars,
                   embVars, retryVars>>

\* the next message arrives
WkReceive ==
    /\ wk_pc = "idle"
    /\ wk_received < MaxMessages
    /\ wk_msg' \in Messages
    /\ wk_pc' = "received"
    /\ wk_received' = wk_received + 1
    /\ UNCHANGED <<wk_searchRadius, wk_umapCoords, wk_sorted, wk_idx,
                   wk_placements, wk_occupied, wk_nullFor, wk_response,
                   wk_posted, wk_UMAPCtor, hexVars, hookVars, utilVars, genVars,
                   embVars, retryVars>>

WorkerNext == WkStep \/ WkReturn \/ WkReceive

WorkerSpec == WorkerInit /\ [][WorkerNext]_vars

\* the cells of the entries of a placements list
PlacedCells(placements) == {placements[i][2] : i \in DOMAIN placements}

WkAnswered ==
    /\ wk_pc = "done"
    /\ wk_response # NULL
    /\ wk_response.type = "placementResult"

(***************************************************************************)
(* C1: for a request of N >= 2 items with pairwise-distinct ids and any    *)
(* projected points, computePlacement returns exactly N placement entries, *)
(* one per item id, whose hex cells are pairwise distinct, as long as      *)
(* every item has a free cell within the search radius of its ideal hex.   *)
(***************************************************************************)
C1_DistinctCells ==
    (WkAnswered /\ Len(wk_msg.stories) >= 2 /\ wk_nullFor = {}) =>
        LET p == wk_response.placements
        IN  /\ Len(p) = Len(wk_msg.stories)
            /\ {p[i][1] : i \in DOMAIN p} =
                   {wk_msg.stories[i].id : i \in DOMAIN wk_msg.stories}
            /\ \A i, j \in DOMAIN p : i # j => p[i][2] # p[j][2]

\* three stories on one projected point: two of them were moved off the
\* ideal hex by the collision search
C1_Witness ==
    /\ WkAnswered
    /\ Len(wk_msg.stories) = 3
    /\ wk_nullFor = {}
    /\ \A i \in 1..3 : wk_umapCoords[i] = <<20, 20>>
    /\ Cardinality(PlacedCells(wk_response.placements)) = 3

(***************************************************************************)
(* C2: when findAvailableHex returns null for an item, the orchestrator    *)
(* never records an already-occupied cell as that item's placement inside  *)
(* a successful placementResult.                                           *)
(***************************************************************************)
C2_NullNotSuccess ==
    WkAnswered =>
        LET p == wk_response.placements
        IN  \A i \in DOMAIN p :
                p[i][1] \in wk_nullFor =>
                    \A j \in 1..(i - 1) : p[j][2] # p[i][2]

(***************************************************************************)
(* C9: for every request message the worker receives it posts exactly one  *)
(* response, a placementResult or an error; an exception anywhere in       *)
(* computePlacement becomes an error response, never an unanswered request *)
(* or a second response.                                                   *)
(***************************************************************************)
C9_OneResponse ==
    /\ wk_pc = "done" =>
           /\ wk_posted = wk_received
           /\ wk_response # NULL
           /\ wk_response.type \in {"placementResult", "error"}
    /\ wk_pc = "idle" => wk_posted = wk_received
    /\ wk_pc \notin {"done", "idle"} =>
           /\ wk_posted = wk_received - 1
           /\ wk_response = NULL
           /\ \/ ENABLED (WkStart \/ WkLoaded \/ WkTooFew \/ WkFitThrows \/ WkPostResult)
              \/ (wk_pc = "placing" /\ wk_idx <= Len(wk_sorted))

\* the second message of a run is a 1-story request, answered by the error
\* of the thrown precondition
C9_Witness ==
    /\ wk_pc = "done"
    /\ wk_received = 2
    /\ wk_posted = 2
    /\ Len(wk_msg.stories) = 1
    /\ wk_response = ErrorMessage("Need at least 2 stories to compute UMAP")

(***************************************************************************)
(* C21: the worker processes items in an order in which every item with a  *)
(* cluster_id precedes every item without one and items with cluster_ids   *)
(* appear in non-decreasing cluster_id order; this order, not the input    *)
(* order, is the order of the entries in the returned placements list.     *)
(* Violated: the comparator tests cluster_id for truthiness, so a story    *)
(* whose cluster_id is the empty string is sorted as one without any.      *)
(***************************************************************************)
C21_ClusterOrder ==
    WkAnswered =>
        /\ \A i, j \in DOMAIN wk_sorted :
               i < j =>
                   /\ wk_sorted[j].cluster_id # 0 => wk_sorted[i].cluster_id # 0
                   /\ (wk_sorted[i].cluster_id # 0 /\ wk_sorted[j].cluster_id # 0)
                          => wk_sorted[i].cluster_id <= wk_sorted[j].cluster_id
        /\ wk_response.placements # << >> =>
               [i \in DOMAIN wk_response.placements |-> wk_response.placements[i][1]]
                   = [i \in DOMAIN wk_sorted |-> wk_sorted[i].id]

\* the ideal hex of the story with that id in the request at hand
IdealOf(id) ==
    LET umapCoord == StoryUMAP(wk_msg.stories, wk_umapCoords, id)
    IN  IdealHexTable[<<RatInt(umapCoord[1]), RatInt(umapCoord[2]),
                        wk_msg.norm, wk_msg.config>>]

\* the placing loop has recorded entries and every search found a cell
C22_Case ==
    /\ wk_pc \in {"placing", "done"}
    /\ wk_placements # << >>
    /\ wk_nullFor = {}

HookInit ==
    /\ GenIdle
    /\ EmbIdle
    /\ RetryIdle
    /\ HexIdle
    /\ WorkerIdle
    /\ UtilIdle
    /\ hk_mounted = TRUE
    /\ hk_terminated = FALSE
    /\ hk_calls = << >>
    /\ hk_inbox = << >>
    /\ hk_outbox = << >>
    /\ hk_foreign = 0
    /\ hk_loading = FALSE
       \* the mount effect: `new Worker(...)` succeeds, or throws
    /\ \/ hk_workerRef = "worker" /\ hk_error = "null"
       \/ hk_workerRef = "null" /\ hk_error = "Failed to initialize web worker"

\* setLoading / setError: a state update of an unmounted component is dropped
SetState(current, value) == IF hk_mounted THEN value ELSE current

NewCall(n, promise, value, reason, posted) ==
    [n |-> n, promise |-> promise, value |-> value, reason |-> reason,
     timer |-> posted, listening |-> posted, sawOther |-> FALSE]

\* the Map computePlacement returns without the worker
EmptyPlacements == [type |-> "local", placements |-> << >>]

SinglePlacement == [type |-> "local", placements |-> << <<1, Hex(0, 0)>> >>]

\* mutant: computePlacement without the early returns for fewer than 2
\* stories
HkCall_NoShortcut(n) ==
    /\ Len(hk_calls) < MaxCalls
    /\ IF hk_workerRef = "null" THEN
           /\ hk_calls' = Append(hk_calls,
                  NewCall(n, "rejected", NULL, "Web worker not initialized", FALSE))
           /\ hk_loading' = SetState(hk_loading, FALSE)
           /\ hk_error' = SetState(hk_error, "Web worker not initialized")
           /\ UNCHANGED hk_inbox
       ELSE
           /\ hk_loading' = SetState(hk_loading, TRUE)
           /\ hk_error' = SetState(hk_error, "null")
           /\ hk_calls' = Append(hk_calls, NewCall(n, "pending", NULL, "", TRUE))
           /\ hk_inbox' = Append(hk_inbox, Len(hk_calls) + 1)
    /\ UNCHANGED <<hk_mounted, hk_terminated, hk_workerRef, hk_outbox, hk_foreign,
                   hexVars, workerVars, utilVars, genVars,
                   embVars, retryVars>>

\* computePlacement(stories, norm, config) with n stories
HkCall(n) ==
    /\ Len(hk_calls) < MaxCalls
    /\ IF n = 0 THEN
           /\ hk_calls' = Append(hk_calls, NewCall(n, "resolved", EmptyPlacements, "", FALSE))
           /\ UNCHANGED <<hk_loading, hk_error, hk_inbox>>
       ELSE IF n < 2 THEN
           /\ hk_calls' = Append(hk_calls, NewCall(n, "resolved", SinglePlacement, "", FALSE))
           /\ UNCHANGED <<hk_loading, hk_error, hk_inbox>>
       ELSE IF hk_workerRef = "null" THEN
           /\ hk_calls' = Append(hk_calls,
                  NewCall(n, "rejected", NULL, "Web worker not initialized", FALSE))
           /\ hk_loading' = SetState(hk_loading, FALSE)
           /\ hk_error' = SetState(hk_error, "Web worker not initialized")
           /\ UNCHANGED hk_inbox
       ELSE
           /\ hk_loading' = SetState(hk_loading, TRUE)
           /\ hk_error' = SetState(hk_error, "null")
           /\ hk_calls' = Append(hk_calls, NewCall(n, "pending", NULL, "", TRUE))
           /\ hk_inbox' = Append(hk_inbox, Len(hk_calls) + 1)
    /\ UNCHANGED <<hk_mounted, hk_terminated, hk_workerRef, hk_outbox, hk_foreign,
                   hexVars, workerVars, utilVars, genVars,
                   embVars, retryVars>>

\* the setTimeout callback of call c
HkTimeout(c) ==
    /\ c \in DOMAIN hk_calls
    /\ hk_calls[c].timer
    /\ hk_calls' =
           [hk_calls EXCEPT
               ![c].timer = FALSE,
               ![c].promise = IF @ = "pending" THEN "rejected" ELSE @,
               ![c].reason = IF hk_calls[c].promise = "pending"
                             THEN "Placement computation timeout" ELSE @]
    /\ hk_loading' = SetState(hk_loading, FALSE)
    /\ UNCHANGED <<hk_error, hk_mounted, hk_terminated, hk_workerRef, hk_inbox,
                   hk_outbox, hk_foreign, hexVars, workerVars, utilVars, genVars,
                   embVars, retryVars>>

\* the worker's listener handles its next request and posts the one
\* response it has for it: the placementResult of that request, or an error
HkWorkerAnswer ==
    /\ ~hk_terminated
    /\ hk_inbox # << >>
    /\ \E type \in {"placementResult", "error"} :
           hk_outbox' = Append(hk_outbox,
               [type |-> type, req |-> Head(hk_inbox),
                error |-> IF type = "error" THEN "worker error" ELSE ""])
    /\ hk_inbox' = Tail(hk_inbox)
    /\ UNCHANGED <<hk_calls, hk_loading, hk_error, hk_mounted, hk_terminated,
                   hk_workerRef, hk_foreign, hexVars, workerVars, utilVars, genVars,
                   embVars, retryVars>>

\* the script behind workerUrl is the caller's choice: one that is not this
\* repository's worker posts a message of another type
HkForeignMessage ==
    /\ ~hk_terminated
    /\ hk_workerRef = "worker"
    /\ hk_foreign < MaxForeign
    /\ hk_foreign' = hk_foreign + 1
    /\ hk_outbox' = Append(hk_outbox, [type |-> "progress", req |-> 0, error |-> ""])
    /\ UNCHANGED <<hk_calls, hk_loading, hk_error, hk_mounted, hk_terminated,
                   hk_workerRef, hk_inbox, hexVars, workerVars, utilVars, genVars,
                   embVars, retryVars>>

\* what handleMessage does to its own call on event.data = data; resolve and
\* reject leave a settled promise as it is
HandleMessage(call, data) ==
    [call EXCEPT
        !.timer = FALSE,
        !.listening = FALSE,
        !.promise = IF @ # "pending" THEN @
                    ELSE IF data.type = "placementResult" THEN "resolved"
                    ELSE IF data.type = "error" THEN "rejected"
                    ELSE "pending",
        !.value = IF call.promise = "pending" /\ data.type = "placementResult"
                  THEN data ELSE @,
        !.reason = IF call.promise = "pending" /\ data.type = "error"
                   THEN data.error ELSE @,
        !.sawOther = @ \/ (call.promise = "pending"
                           /\ data.type \notin {"placementResult", "error"})]

\* the calls whose handleMessage is registered when a message is dispatched
Listeners == {c \in DOMAIN hk_calls : hk_calls[c].listening}

\* a message of the worker reaches the main thread: every registered
\* handleMessage runs on it
HkDeliver ==
    /\ ~hk_terminated
    /\ hk_outbox # << >>
    /\ LET data == Head(hk_outbox)
       IN  /\ hk_calls' = [c \in DOMAIN hk_calls |->
                              IF c \in Listeners
                              THEN HandleMessage(hk_calls[c], data)
                              ELSE hk_calls[c]]
           /\ hk_loading' =
                  IF Listeners # {} /\ data.type \in {"placementResult", "error"}
                  THEN SetState(hk_loading, FALSE) ELSE hk_loading
           /\ hk_error' =
                  IF Listeners # {} /\ data.type = "error"
                  THEN SetState(hk_error, data.error) ELSE hk_error
    /\ hk_outbox' = Tail(hk_outbox)
    /\ UNCHANGED <<hk_mounted, hk_terminated, hk_workerRef, hk_inbox, hk_foreign,
                   hexVars, workerVars, utilVars, genVars,
                   embVars, retryVars>>

\* handleError / handleMessageError: the worker raises an 'error' or a
\* 'messageerror' event
HkWorkerError ==
    /\ ~hk_terminated
    /\ hk_workerRef = "worker"
    /\ hk_error' = SetState(hk_error, "Web worker message error")
    /\ hk_loading' = SetState(hk_loading, FALSE)
    /\ UNCHANGED <<hk_calls, hk_mounted, hk_terminated, hk_workerRef, hk_inbox,
                   hk_outbox, hk_foreign, hexVars, workerVars, utilVars, genVars,
                   embVars, retryVars>>

\* the effect's cleanup: the worker is terminated with whatever it still
\* had to handle or deliver
HkTeardown ==
    /\ hk_mounted
    /\ hk_mounted' = FALSE
    /\ hk_terminated' = (hk_workerRef = "worker")
    /\ hk_workerRef' = "null"
    /\ hk_inbox' = << >>
    /\ hk_outbox' = << >>
    /\ UNCHANGED <<hk_calls, hk_loading, hk_error, hk_foreign, hexVars, workerVars, utilVars, genVars,
                   embVars, retryVars>>

HookNext ==
    \/ \E n \in 0..2 : HkCall(n)
    \/ \E c \in 1..MaxCalls : HkTimeout(c)
    \/ HkWorkerAnswer
    \/ HkForeignMessage
    \/ HkDeliver
    \/ HkWorkerError
    \/ HkTeardown

HookSpec == HookInit /\ [][HookNext]_vars

(***************************************************************************)
(* C7: every promise of the hook's computePlacement that resolves,         *)
(* resolves with the placementResult the worker produced for that call's   *)
(* own request, also when a second call is issued before the response to   *)
(* the first has arrived.                                                  *)
(***************************************************************************)
C7_OwnResult ==
    \A c \in DOMAIN hk_calls :
        (hk_calls[c].n >= 2 /\ hk_calls[c].promise = "resolved") =>
            hk_calls[c].value = [type |-> "placementResult", req |-> c, error |-> ""]

(***************************************************************************)
(* C8: after a request has timed out and been rejected, a response that    *)
(* arrives later is not applied: it changes neither loading nor error, and *)
(* the timed-out promise stays rejected.                                   *)
(***************************************************************************)
TimedOut(c) ==
    /\ hk_calls[c].promise = "rejected"
    /\ hk_calls[c].reason = "Placement computation timeout"

\* handleMessage of call c runs in this step
HandlerRuns(c) == hk_calls[c].listening /\ ~hk_calls'[c].listening

\* the response to the request of a timed-out call is dispatched, and no
\* handleMessage of a call that has not timed out runs on it
C8_LateResponseIgnored ==
    [][ ( /\ \E c \in DOMAIN hk_calls :
                 /\ HandlerRuns(c)
                 /\ hk_outbox # << >>
                 /\ Head(hk_outbox).req = c
          /\ \A c \in DOMAIN hk_calls : HandlerRuns(c) => TimedOut(c) )
        => /\ hk_loading' = hk_loading
           /\ hk_error' = hk_error
           /\ \A c \in DOMAIN hk_calls :
                  HandlerRuns(c) => hk_calls'[c].promise = "rejected" ]_vars

(***************************************************************************)
(* C10: when the caller receives a worker message whose type is neither    *)
(* placementResult nor error while a request is pending, the pending       *)
(* promise is rejected; it is never left unsettled forever.                *)
(***************************************************************************)
C10_OtherTypeRejects ==
    \A c \in DOMAIN hk_calls :
        hk_calls[c].sawOther => hk_calls[c].promise = "rejected"

(***************************************************************************)
(* C11: when the hook is torn down the pending request is cancelled: once  *)
(* the cleanup has run no computePlacement promise is still pending, the   *)
(* teardown having rejected it.                                            *)
(***************************************************************************)
C11_TeardownCancels ==
    ~hk_mounted => \A c \in DOMAIN hk_calls : hk_calls[c].promise # "pending"

(***************************************************************************)
(* C13: for fewer than 2 items the hook's computePlacement posts no        *)
(* request to the worker: with 0 items it returns an empty placement map,  *)
(* with 1 item the map {id -> (q:0, r:0)}, and it leaves loading and error *)
(* unchanged.                                                              *)
(***************************************************************************)
C13_SmallCallsLocal ==
    [][ ( /\ Len(hk_calls') = Len(hk_calls) + 1
          /\ hk_calls'[Len(hk_calls')].n < 2 )
        => LET call == hk_calls'[Len(hk_calls')]
           IN  /\ hk_inbox' = hk_inbox
               /\ hk_loading' = hk_loading
               /\ hk_error' = hk_error
               /\ call.promise = "resolved"
               /\ ~call.listening
               /\ ~call.timer
               /\ call.value # NULL
               /\ call.value.placements =
                      IF call.n = 0 THEN << >> ELSE << <<1, Hex(0, 0)>> >> ]_vars

\* a 1-story call made while another call is in flight and loading is true
C13_Witness ==
    /\ hk_loading
    /\ \E c, d \in DOMAIN hk_calls :
           /\ c < d
           /\ hk_calls[c].n = 2
           /\ hk_calls[c].promise = "pending"
           /\ hk_calls[d].n = 1
           /\ hk_calls[d].promise = "resolved"
           /\ hk_calls[d].value = SinglePlacement

(***************************************************************************)
(* UtilSpec: one call of a utility function.  ut_call names the function   *)
(* and carries its arguments; the action of that function computes the     *)
(* value it returns.                                                       *)
(***************************************************************************)
Min(a, b) == IF a < b THEN a ELSE b

Max(a, b) == IF a > b THEN a ELSE b

\* Math.floor(Math.sqrt(n))
FloorSqrt(n) == CHOOSE k \in 0..n : k * k <= n /\ (k + 1) * (k + 1) > n

\* computePlacement's nNeighbors for stories.length = N
maxNeighbors(N) == Max(2, N - 1)

calculatedNeighbors(N) == Min(15, Max(2, FloorSqrt(N)))

nNeighbors(N) == Min(calculatedNeighbors(N), maxNeighbors(N))

\* the largest stories.length tried: beyond 16 * 16, where the cap of 15 acts
MaxItemCount == 260

\* the calls tried, as a condition on ut_call: the line is reached with at
\* least one story
NeighborCalls ==
    \E n \in 1..MaxItemCount : ut_call = [fn |-> "nNeighbors", N |-> n]

UtReturn(value) ==
    /\ ut_result' = value
    /\ ut_pc' = "returned"
    /\ UNCHANGED <<ut_call, hexVars, workerVars, hookVars, genVars,
                   embVars, retryVars>>

UtNNeighbors ==
    /\ ut_pc = "input"
    /\ ut_call.fn = "nNeighbors"
    /\ UtReturn(nNeighbors(ut_call.N))

(***************************************************************************)
(* utils/themes.ts.  An embedding is a sequence of numbers, a centroid     *)
(* too; Math.random is an argument: draws[i] is the index (from 1) of the  *)
(* embedding drawn for centroid i.                                         *)
(***************************************************************************)
RECURSIVE SumOver(_, _)
\* f[1] + ... + f[n]
SumOver(f, n) == IF n = 0 THEN RatInt(0) ELSE RatAdd(SumOver(f, n - 1), f[n])

RatSign(a) == IF a.n > 0 THEN 1 ELSE IF a.n < 0 THEN -1 ELSE 0

NaN == [nan |-> TRUE]

\* cosineSimilarity(a, b).  The value dotProduct / (sqrt(normA) * sqrt(normB))
\* is kept as its signed square, which orders the same way; 0 / 0 is NaN.
cosineSimilarity(a, b) ==
    IF Len(a) # Len(b) THEN [nan |-> FALSE, ssq |-> RatInt(0)]
    ELSE LET dotProduct == SumOver([i \in DOMAIN a |-> RatMul(a[i], b[i])], Len(a))
             normA == SumOver([i \in DOMAIN a |-> RatMul(a[i], a[i])], Len(a))
             normB == SumOver([i \in DOMAIN a |-> RatMul(b[i], b[i])], Len(a))
         IN  IF normA.n = 0 \/ normB.n = 0 THEN NaN
             ELSE [nan |-> FALSE,
                   ssq |-> RatMul(RatInt(RatSign(dotProduct)),
                                  RatDiv(RatMul(dotProduct, dotProduct),
                                         RatMul(normA, normB)))]

\* mutant: nearestCentroid counts the centroids instead of naming the nearest
NearestCentroid_Last(embedding, centroids, cIdx, nearestCentroid, minSim) ==
    Len(centroids)

RECURSIVE NearestCentroid(_, _, _, _, _)
\* the centroids.forEach of one embedding from centroid cIdx (from 0) on;
\* minSim is NULL while minDistance is Infinity.  `dist < minDistance` with
\* dist = 1 - similarity is false for NaN.
NearestCentroid(embedding, centroids, cIdx, nearestCentroid, minSim) ==
    IF cIdx >= Len(centroids) THEN nearestCentroid
    ELSE LET sim == cosineSimilarity(embedding, centroids[cIdx + 1])
         IN  IF ~sim.nan /\ (minSim = NULL \/ RatLess(minSim, sim.ssq))
             THEN NearestCentroid(embedding, centroids, cIdx + 1, cIdx, sim.ssq)
             ELSE NearestCentroid(embedding, centroids, cIdx + 1,
                                  nearestCentroid, minSim)

\* "Recalculate centroids"
RecalculateCentroids(embeddings, centroids, assignments) ==
    [c \in DOMAIN centroids |->
        LET clusterPoints == {i \in DOMAIN embeddings : assignments[i] = c - 1}
            dimension == Len(embeddings[1])
            total(d) ==
                SumOver([i \in DOMAIN embeddings |->
                            IF i \in clusterPoints THEN embeddings[i][d]
                            ELSE RatInt(0)], Len(embeddings))
        IN  IF clusterPoints = {} THEN centroids[c]
            ELSE [d \in 1..dimension |->
                     RatDiv(total(d), RatInt(Cardinality(clusterPoints)))]]

RECURSIVE KMeansLoop(_, _, _, _, _)
\* the loop `for (iteration < maxIterations)` from iteration on
KMeansLoop(embeddings, centroids, assignments, iteration, maxIterations) ==
    IF iteration >= maxIterations THEN assignments
    ELSE LET newAssignments ==
                 [i \in DOMAIN embeddings |->
                     NearestCentroid(embeddings[i], centroids, 0, 0, NULL)]
         IN  IF newAssignments = assignments THEN assignments
             ELSE KMeansLoop(embeddings,
                             RecalculateCentroids(embeddings, centroids, newAssignments),
                             newAssignments, iteration + 1, maxIterations)

RECURSIVE KMeansTrace(_, _, _, _, _)
\* the newAssignments of every round the loop runs from iteration on, the
\* round that ends it by `if (!changed) break` included
KMeansTrace(embeddings, centroids, assignments, iteration, maxIterations) ==
    IF iteration >= maxIterations THEN << >>
    ELSE LET newAssignments ==
                 [i \in DOMAIN embeddings |->
                     NearestCentroid(embeddings[i], centroids, 0, 0, NULL)]
         IN  IF newAssignments = assignments THEN <<newAssignments>>
             ELSE <<newAssignments>> \o
                  KMeansTrace(embeddings,
                              RecalculateCentroids(embeddings, centroids, newAssignments),
                              newAssignments, iteration + 1, maxIterations)

\* mutant: no shortcut for k >= embeddings.length; a centroid without a
\* draw starts on the embedding of its own index
kMeansClustering_AlwaysCluster(embeddings, k, draws) ==
    KMeansLoop(embeddings,
               [i \in 1..k |-> embeddings[IF i \in DOMAIN draws THEN draws[i] ELSE i]],
               [i \in DOMAIN embeddings |-> 0],
               0, 100)

\* kMeansClustering(embeddings, k) with the default maxIterations
kMeansClustering(embeddings, k, draws) ==
    IF Len(embeddings) = 0 THEN << >>
    ELSE IF k >= Len(embeddings) THEN [i \in DOMAIN embeddings |-> i - 1]
    ELSE KMeansLoop(embeddings,
                    [i \in 1..k |-> embeddings[draws[i]]],
                    [i \in DOMAIN embeddings |-> 0],
                    0, 100)

RECURSIVE AssignEach_ByIndex(_, _, _, _, _)
\* mutant: the theme id made from the story's position, not from its cluster
AssignEach_ByIndex(validStories, clusterAssignments, themes, idx, assignments) ==
    IF idx >= Len(validStories) THEN assignments
    ELSE AssignEach_ByIndex(validStories, clusterAssignments, themes, idx + 1,
                            MapSet(assignments, validStories[idx + 1], <<"theme", idx>>))

RECURSIVE AssignEach(_, _, _, _, _)
\* validStories.forEach((story, idx) => ...) from idx (from 0) on
AssignEach(validStories, clusterAssignments, themes, idx, assignments) ==
    IF idx >= Len(validStories) THEN assignments
    ELSE LET clusterId == clusterAssignments[idx + 1]
             themeId == themes[(clusterId % Len(themes)) + 1]
         IN  AssignEach(validStories, clusterAssignments, themes, idx + 1,
                        MapSet(assignments, validStories[idx + 1], themeId))

\* mutant: stories without an embedding are not filtered out
assignStoriesToThemes_AllStories(stories, embeddings, themes, draws) ==
    IF Len(themes) = 0 \/ Len(stories) = 0 THEN << >>
    ELSE AssignEach(stories, [i \in DOMAIN stories |-> 0], themes, 0, << >>)

\* mutant: k is the number of valid stories, not capped by themes.length
assignStoriesToThemes_NoMin(stories, embeddings, themes, draws) ==
    IF Len(themes) = 0 \/ Len(stories) = 0 THEN << >>
    ELSE LET has(id) == id \in DOMAIN embeddings
             validStories == SelectSeq(stories, has)
             embeddingArray == [i \in DOMAIN validStories |-> embeddings[validStories[i]]]
         IN  IF Len(validStories) = 0 THEN << >>
             ELSE AssignEach(validStories,
                             kMeansClustering(embeddingArray, Len(validStories), draws),
                             themes, 0, << >>)

\* assignStoriesToThemes(stories, embeddings, themes): stories by their ids,
\* embeddings a function on the ids that have one, themes by their ids; the
\* Map returned as its entries in insertion order
assignStoriesToThemes(stories, embeddings, themes, draws) ==
    IF Len(themes) = 0 \/ Len(stories) = 0 THEN << >>
    ELSE LET has(id) == id \in DOMAIN embeddings
             validStories == SelectSeq(stories, has)
             embeddingArray == [i \in DOMAIN validStories |-> embeddings[validStories[i]]]
             k == Min(Len(themes), Len(validStories))
         IN  IF Len(validStories) = 0 THEN << >>
             ELSE AssignEach(validStories,
                             kMeansClustering(embeddingArray, k, draws),
                             themes, 0, << >>)

\* the most stories and the most themes of a call
MaxThemeStories == 3

MaxThemes == 2

\* the embeddings tried: two directions and the zero vector, whose cosine
\* similarity is NaN
EmbeddingValues ==
    {<<RatInt(1), RatInt(0)>>, <<RatInt(0), RatInt(1)>>, <<RatInt(0), RatInt(0)>>}

\* the draws of Math.random that kMeansClustering(n embeddings, k) makes
Draws(n, k) == IF k >= n THEN {<< >>} ELSE [1..k -> 1..n]

ThemeList(t) == [i \in 1..t |-> <<"theme", i - 1>>]

AssignCalls ==
    \E n \in 0..MaxThemeStories, t \in 0..MaxThemes :
        \E have \in SUBSET (1..n) :
            \E e \in [have -> EmbeddingValues],
               d \in Draws(Cardinality(have), Min(t, Cardinality(have))) :
                ut_call = [fn |-> "assignStoriesToThemes",
                           stories |-> [i \in 1..n |-> i],
                           embeddings |-> e, themes |-> ThemeList(t), draws |-> d]

\* kMeansClustering as assignStoriesToThemes calls it: 1 <= k <= length
KMeansCalls ==
    \E n \in 1..MaxThemeStories :
        \E k \in 1..n :
            \E e \in [1..n -> EmbeddingValues], d \in Draws(n, k) :
                ut_call = [fn |-> "kMeansClustering", embeddings |-> e,
                           k |-> k, draws |-> d]

UtAssignStoriesToThemes ==
    /\ ut_pc = "input"
    /\ ut_call.fn = "assignStoriesToThemes"
    /\ UtReturn(assignStoriesToThemes(ut_call.stories, ut_call.embeddings,
                                      ut_call.themes, ut_call.draws))

UtKMeansClustering ==
    /\ ut_pc = "input"
    /\ ut_call.fn = "kMeansClustering"
    /\ UtReturn(kMeansClustering(ut_call.embeddings, ut_call.k, ut_call.draws))

(***************************************************************************)
(* utils/hex.ts: generateClusterHexes.  A Set of keys is the sequence of   *)
(* its elements in insertion order, which Array.from(newOccupied) follows. *)
(***************************************************************************)
SeqRange(seq) == {seq[i] : i \in DOMAIN seq}

\* Set.prototype.add
SetAdd(seq, key) == IF key \in SeqRange(seq) THEN seq ELSE Append(seq, key)

\* the default maxRadius of findAvailableHex
DefaultMaxRadius == 10

\* getHexNeighbors(hex).filter(hex => !newOccupied.has(key))
AvailableNeighbors(hex, newOccupied) ==
    SelectSeq(getHexNeighbors(hex),
              LAMBDA n : HexKey(n) \notin SeqRange(newOccupied))

\* Array.from(newOccupied).map(...).find(hex => some neighbour is free):
\* the position of the first such key, 0 for undefined
NewCenterIndex(newOccupied) ==
    LET found == {i \in DOMAIN newOccupied :
                     AvailableNeighbors(Hex(newOccupied[i][1], newOccupied[i][2]),
                                        newOccupied) # << >>}
    IN  IF found = {} THEN 0 ELSE CHOOSE i \in found : \A j \in found : i <= j

RECURSIVE ClusterLoop(_, _, _, _, _)
\* `for (let i = 1; i < size; i++)` from i on
ClusterLoop(i, size, currentCenter, hexes, newOccupied) ==
    IF i >= size THEN hexes
    ELSE LET availableNeighbors == AvailableNeighbors(currentCenter, newOccupied)
         IN  IF availableNeighbors = << >>
             THEN LET at == NewCenterIndex(newOccupied)
                  IN  IF at # 0
                      THEN \* `continue`: i++ runs, nothing is pushed
                           ClusterLoop(i + 1, size,
                                       Hex(newOccupied[at][1], newOccupied[at][2]),
                                       hexes, newOccupied)
                      ELSE hexes
             ELSE LET nextHex == availableNeighbors[1]
                  IN  ClusterLoop(i + 1, size, currentCenter,
                                  Append(hexes, nextHex),
                                  SetAdd(newOccupied, HexKey(nextHex)))

generateClusterHexes(center, size, occupied) ==
    LET currentCenter == findAvailableHex(center, SeqRange(occupied), DefaultMaxRadius)
    IN  IF currentCenter = NULL THEN << >>
        ELSE ClusterLoop(1, size, currentCenter, <<currentCenter>>,
                         SetAdd(occupied, HexKey(currentCenter)))

\* the largest cluster asked for: one more than a cell and its six
\* neighbours
MaxClusterSize == 8

\* the most cells of the occupied set passed in
MaxOccupied == 2

RECURSIVE DistinctSeqs(_, _)
\* the sequences of up to n distinct elements of S
DistinctSeqs(S, n) ==
    IF n = 0 THEN {<< >>}
    ELSE LET shorter == DistinctSeqs(S, n - 1)
         IN  shorter \cup
             UNION {{Append(seq, x) : x \in S \ SeqRange(seq)} : seq \in shorter}

ClusterCalls ==
    \E size \in 1..MaxClusterSize,
       occ \in DistinctSeqs({HexKey(h) : h \in Disk(Hex(0, 0), 1)}, MaxOccupied) :
        ut_call = [fn |-> "generateClusterHexes", center |-> Hex(0, 0),
                   size |-> size, occupied |-> occ]

UtGenerateClusterHexes ==
    /\ ut_pc = "input"
    /\ ut_call.fn = "generateClusterHexes"
    /\ UtReturn(generateClusterHexes(ut_call.center, ut_call.size, ut_call.occupied))

(***************************************************************************)
(* utils/hex.ts: hexToPixel, pixelToHex and cubeRound.  pixelToHex and     *)
(* cubeRound are the same code as in the worker.                           *)
(***************************************************************************)
\* mutant: y without the row term
hexToPixel_NoRow(hex, hexRadius) ==
    [x |-> RatMul(RatInt(hexRadius), RatMul(Rat(3, 2), RatInt(hex.q))),
     y |-> RatMul(RatInt(hexRadius),
                  RatMul(RatDiv(Sqrt3, RatInt(2)), RatInt(hex.q)))]

hexToPixel(hex, hexRadius) ==
    [x |-> RatMul(RatInt(hexRadius), RatMul(Rat(3, 2), RatInt(hex.q))),
     y |-> RatMul(RatInt(hexRadius),
                  RatAdd(RatMul(RatDiv(Sqrt3, RatInt(2)), RatInt(hex.q)),
                         RatMul(Sqrt3, RatInt(hex.r))))]

\* the largest |q|, |r| of a hex and the largest hexRadius of a round trip
MaxCoord == 4

MaxHexRadius == 14

RoundTripCalls ==
    \E q \in -MaxCoord..MaxCoord, r \in -MaxCoord..MaxCoord,
       hexRadius \in 1..MaxHexRadius :
        ut_call = [fn |-> "pixelToHex(hexToPixel)", hex |-> Hex(q, r),
                   hexRadius |-> hexRadius]

UtRoundTrip ==
    /\ ut_pc = "input"
    /\ ut_call.fn = "pixelToHex(hexToPixel)"
    /\ UtReturn(pixelToHex(hexToPixel(ut_call.hex, ut_call.hexRadius),
                           ut_call.hexRadius))

\* the fractions k/d tried as q and r of a cube; s is -q - r
MaxNumerator == 5

MaxDenominator == 4

CubeFractions ==
    {Rat(k, d) : k \in -MaxNumerator..MaxNumerator, d \in 1..MaxDenominator}

CubeRoundCalls ==
    \E q \in CubeFractions, r \in CubeFractions :
        ut_call = [fn |-> "cubeRound",
                   cube |-> [q |-> q, r |-> r, s |-> RatSub(RatNeg(q), r)]]

UtCubeRound ==
    /\ ut_pc = "input"
    /\ ut_call.fn = "cubeRound"
    /\ UtReturn(cubeRound(ut_call.cube))


\* projected coordinates k/2 and norm bounds tried on normalizeUMAP
MaxPoint == 2

MaxNormBound == 1

PointValues == {Rat(k, 2) : k \in -MaxPoint..MaxPoint}

\* the bounds of one axis, min < max
AxisBounds ==
    {b \in (-MaxNormBound..MaxNormBound) \X (-MaxNormBound..MaxNormBound) :
         b[1] < b[2]}

\* one point, a second y to compare with, and a norm
PixelCalls ==
    \E x \in PointValues, y \in PointValues, y2 \in PointValues,
       bx \in AxisBounds, by \in AxisBounds :
        ut_call = [fn |-> "placeStory.pixel", x |-> x, y |-> y, y2 |-> y2,
                   norm |-> [min_x |-> bx[1], max_x |-> bx[2],
                             min_y |-> by[1], max_y |-> by[2]],
                   config |-> DEFAULT_CONFIG]

\* normalizeUMAP and the pixel placeStory makes of it, for (x, y) and (x, y2)
UtPlacePixel ==
    /\ ut_pc = "input"
    /\ ut_call.fn = "placeStory.pixel"
    /\ UtReturn([n |-> normalizeUMAP(ut_call.x, ut_call.y, ut_call.norm),
                 pixel |-> PlacePixel(ut_call.x, ut_call.y, ut_call.norm,
                                      ut_call.config),
                 pixel2 |-> PlacePixel(ut_call.x, ut_call.y2, ut_call.norm,
                                       ut_call.config)])

UtilCalls ==
    \/ PixelCalls
    \/ NeighborCalls
    \/ AssignCalls
    \/ KMeansCalls
    \/ ClusterCalls
    \/ RoundTripCalls
    \/ CubeRoundCalls

UtilInit ==
    /\ GenIdle
    /\ EmbIdle
    /\ RetryIdle
    /\ HexIdle
    /\ WorkerIdle
    /\ HookIdle
    /\ UtilCalls
    /\ ut_result = NULL
    /\ ut_pc = "input"

UtilNext ==
    \/ UtPlacePixel
    \/ UtNNeighbors
    \/ UtAssignStoriesToThemes
    \/ UtKMeansClustering
    \/ UtGenerateClusterHexes
    \/ UtRoundTrip
    \/ UtCubeRound

UtilSpec == UtilInit /\ [][UtilNext]_vars

UtReturned(fn) == ut_pc = "returned" /\ ut_call.fn = fn

(***************************************************************************)
(* C12: for every item count N >= 2 the nNeighbors the worker passes to    *)
(* the projection is strictly less than N, at least 2 and at most 15.      *)
(***************************************************************************)
C12_NeighborsBelowN ==
    (UtReturned("nNeighbors") /\ ut_call.N >= 2) =>
        /\ ut_result < ut_call.N
        /\ ut_result >= 2
        /\ ut_result <= 15

\* the ids of the stories of the call that have an embedding
ValidIds == {ut_call.stories[i] : i \in DOMAIN ut_call.stories} \cap DOMAIN ut_call.embeddings

(***************************************************************************)
(* C14: assignStoriesToThemes returns a map whose keys are exactly the ids *)
(* of the input stories that have an embedding and whose values are ids of *)
(* the supplied themes; the map is empty when themes is empty, stories is  *)
(* empty or no story has an embedding.                                     *)
(***************************************************************************)
C14_KeysAndValues ==
    UtReturned("assignStoriesToThemes") =>
        LET themes == ut_call.themes
        IN  IF Len(themes) = 0 \/ Len(ut_call.stories) = 0 \/ ValidIds = {}
            THEN ut_result = << >>
            ELSE /\ {ut_result[i][1] : i \in DOMAIN ut_result} = ValidIds
                 /\ Len(ut_result) = Cardinality(ValidIds)
                 /\ \A i \in DOMAIN ut_result :
                        \E t \in DOMAIN themes : ut_result[i][2] = themes[t]

\* three stories, one without an embedding, and more themes than one
C14_Witness ==
    /\ UtReturned("assignStoriesToThemes")
    /\ Len(ut_call.stories) = 3
    /\ Cardinality(ValidIds) = 2
    /\ Len(ut_call.themes) = 2
    /\ Len(ut_result) = 2

(***************************************************************************)
(* C15: when k = min(themes.length, validItemCount) is 1,                  *)
(* assignStoriesToThemes gives every story that has an embedding the same  *)
(* theme id, for every choice of embeddings and every centroid draw.       *)
(***************************************************************************)
C15_OneCluster ==
    ( /\ UtReturned("assignStoriesToThemes")
      /\ Min(Len(ut_call.themes), Cardinality(ValidIds)) = 1 )
    => /\ Len(ut_result) = Cardinality(ValidIds)
       /\ \A i, j \in DOMAIN ut_result : ut_result[i][2] = ut_result[j][2]

\* one theme and three stories with embeddings that are not all the same
C15_Witness ==
    /\ UtReturned("assignStoriesToThemes")
    /\ Len(ut_call.themes) = 1
    /\ Cardinality(ValidIds) = 3
    /\ ut_call.embeddings[1] # ut_call.embeddings[2]
    /\ Len(ut_result) = 3

(***************************************************************************)
(* C16: when k equals the number of valid items, kMeansClustering gives    *)
(* item i the cluster index i, whatever the embedding values are.          *)
(***************************************************************************)
C16_OwnCluster ==
    ( /\ UtReturned("kMeansClustering")
      /\ ut_call.k = Len(ut_call.embeddings) )
    => ut_result = [i \in DOMAIN ut_call.embeddings |-> i - 1]

\* three items with one and the same embedding
C16_Witness ==
    /\ UtReturned("kMeansClustering")
    /\ Len(ut_call.embeddings) = 3
    /\ ut_call.k = 3
    /\ ut_call.embeddings[1] = ut_call.embeddings[2]
    /\ ut_call.embeddings[2] = ut_call.embeddings[3]

(***************************************************************************)
(* GenSpec: a StoryDataGenerator over two stories.  generateEmbeddings and *)
(* generateThemes are asynchronous; what they do to the generator happens  *)
(* in one piece when they complete, so each action is the completion of a  *)
(* call.                                                                   *)
(***************************************************************************)
\* this.stories, by id
GenStories == <<1, 2>>

MaxGenCalls == 4

\* the maps a call may produce or be given: any subset of the stories with
\* an embedding each (a story whose request failed has none)
GenEmbeddingMaps ==
    UNION {[have -> {<<RatInt(1), RatInt(0)>>, <<RatInt(0), RatInt(1)>>}] :
               have \in SUBSET {GenStories[i] : i \in DOMAIN GenStories}}

\* the theme lists a generateThemes call may produce
GenThemeLists == {ThemeList(t) : t \in 0..MaxThemes}

Threw == [threw |-> "No embeddings or themes available"]

GenInit ==
    /\ HexIdle
    /\ WorkerIdle
    /\ HookIdle
    /\ UtilIdle
    /\ GenIdle
    /\ EmbIdle
    /\ RetryIdle

\* a Map or an array held in a field or passed as an argument, as opposed
\* to null or undefined (NULL)
Ref(value) == [value |-> value]

GnCalled ==
    /\ gn_calls < MaxGenCalls
    /\ gn_calls' = gn_calls + 1
    /\ UNCHANGED <<hexVars, workerVars, hookVars, utilVars, embVars, retryVars>>

\* generateEmbeddings() runs to its end
GnGenerateEmbeddings ==
    /\ GnCalled
    /\ gn_last' = "resolved"
    /\ \E embeddings \in GenEmbeddingMaps :
           /\ gn_lastEmbeddings' = Ref(embeddings)
           /\ gn_histEmbeddings' = Ref(embeddings)
    /\ gn_out' = NULL
    /\ UNCHANGED <<gn_lastThemes, gn_histThemes>>

\* generateEmbeddings() throws out of a batch
GnGenerateEmbeddingsThrows ==
    /\ GnCalled
    /\ gn_last' = "rejected"
    /\ gn_out' = NULL
    /\ UNCHANGED <<gn_lastEmbeddings, gn_lastThemes, gn_histEmbeddings, gn_histThemes>>

\* the embeddings argument of generateThemes: a Map, or none
GenThemesArguments == {Ref(m) : m \in GenEmbeddingMaps} \cup {NULL}

\* mutant: generateThemes stores its embeddings argument also when there
\* is none
GnGenerateThemes_StoresUndefined ==
    /\ GnCalled
    /\ gn_last' = "resolved"
    /\ \E embeddings \in GenThemesArguments, themes \in GenThemeLists :
           /\ gn_lastEmbeddings' = embeddings
           /\ gn_histEmbeddings' = IF embeddings # NULL THEN embeddings
                                   ELSE gn_histEmbeddings
           /\ gn_lastThemes' = Ref(themes)
           /\ gn_histThemes' = Ref(themes)
    /\ gn_out' = NULL

\* generateThemes(embeddings?) runs to its end
GnGenerateThemes ==
    /\ GnCalled
    /\ gn_last' = "resolved"
    /\ \E embeddings \in GenThemesArguments, themes \in GenThemeLists :
           /\ gn_lastEmbeddings' = IF embeddings # NULL THEN embeddings
                                   ELSE gn_lastEmbeddings
           /\ gn_histEmbeddings' = IF embeddings # NULL THEN embeddings
                                   ELSE gn_histEmbeddings
           /\ gn_lastThemes' = Ref(themes)
           /\ gn_histThemes' = Ref(themes)
    /\ gn_out' = NULL

\* mutant: generateThemes stores its embeddings argument before the request
\* that throws
GnGenerateThemesThrows_StoresFirst ==
    /\ GnCalled
    /\ gn_last' = "rejected"
    /\ gn_out' = NULL
    /\ \E embeddings \in GenThemesArguments :
           gn_lastEmbeddings' = IF embeddings # NULL THEN embeddings
                                ELSE gn_lastEmbeddings
    /\ UNCHANGED <<gn_lastThemes, gn_histEmbeddings, gn_histThemes>>

\* generateThemes throws
GnGenerateThemesThrows ==
    /\ GnCalled
    /\ gn_last' = "rejected"
    /\ gn_out' = NULL
    /\ UNCHANGED <<gn_lastEmbeddings, gn_lastThemes, gn_histEmbeddings, gn_histThemes>>

\* assignStoriesToThemes() without arguments
GnAssign ==
    /\ GnCalled
    /\ LET embeddings == IF gn_lastEmbeddings # NULL THEN gn_lastEmbeddings.value
                         ELSE << >>
           themes == IF gn_lastThemes # NULL THEN gn_lastThemes.value ELSE << >>
       IN  IF Len(themes) = 0 \/ DOMAIN embeddings = {}
           THEN gn_out' = Threw /\ gn_last' = "threw"
           ELSE /\ gn_last' = "returned"
                /\ \E draws \in Draws(Cardinality(DOMAIN embeddings),
                                    Min(Len(themes), Cardinality(DOMAIN embeddings))) :
                    gn_out' = [map |-> assignStoriesToThemes(GenStories, embeddings,
                                                             themes, draws)]
    /\ UNCHANGED <<gn_lastEmbeddings, gn_lastThemes, gn_histEmbeddings, gn_histThemes>>

GenNext ==
    \/ GnGenerateEmbeddings
    \/ GnGenerateEmbeddingsThrows
    \/ GnGenerateThemes
    \/ GnGenerateThemesThrows
    \/ GnAssign

GenSpec == GenInit /\ [][GenNext]_vars

(***************************************************************************)
(* C17: assignStoriesToThemes() without arguments throws unless the latest *)
(* successful generate calls left non-empty embeddings and non-empty       *)
(* themes; with both it assigns from the most recently stored embeddings   *)
(* and themes, after any sequence of generate calls.                       *)
(***************************************************************************)
C17_StoredOrThrows ==
    gn_out # NULL =>
        IF gn_histEmbeddings = NULL \/ gn_histThemes = NULL
        THEN gn_out = Threw
        ELSE IF DOMAIN gn_histEmbeddings.value = {} \/ Len(gn_histThemes.value) = 0
        THEN gn_out = Threw
        ELSE /\ gn_out # Threw
             /\ {gn_out.map[i][1] : i \in DOMAIN gn_out.map} =
                    DOMAIN gn_histEmbeddings.value
             /\ \A i \in DOMAIN gn_out.map :
                    \E t \in DOMAIN gn_histThemes.value :
                        gn_out.map[i][2] = gn_histThemes.value[t]

\* embeddings for both stories, then themes with an embeddings argument for
\* one story only, a failed call, and an assignment from the latter
C17_Witness ==
    /\ gn_calls = 4
    /\ gn_out # NULL
    /\ gn_out # Threw
    /\ Len(gn_out.map) = 1
    /\ Len(gn_histThemes.value) = 2

(***************************************************************************)
(* C18: for any center, any size >= 1 and any occupied set that leaves a   *)
(* free cell within radius 10 of center, generateClusterHexes returns      *)
(* exactly `size` hexes, pairwise distinct and none of them in occupied.   *)
(***************************************************************************)
C18_ClusterOfSize ==
    UtReturned("generateClusterHexes") =>
        /\ Len(ut_result) = ut_call.size
        /\ \A i, j \in DOMAIN ut_result : i # j => ut_result[i] # ut_result[j]
        /\ \A i \in DOMAIN ut_result :
               HexKey(ut_result[i]) \notin SeqRange(ut_call.occupied)

(***************************************************************************)
(* C19: pixelToHex(hexToPixel(h, r), r) = h for every integer hex h and    *)
(* every radius r > 0.                                                     *)
(***************************************************************************)
C19_RoundTrip ==
    UtReturned("pixelToHex(hexToPixel)") => ut_result = ut_call.hex

\* a hex off both axes, at the worker's default radius
C19_Witness ==
    /\ UtReturned("pixelToHex(hexToPixel)")
    /\ ut_call.hex = Hex(3, -4)
    /\ ut_call.hexRadius = 14

(***************************************************************************)
(* C20: for a fractional cube with q + r + s = 0, cubeRound returns        *)
(* integers q and r (s being -q - r) in which only a coordinate with the   *)
(* largest rounding error is recomputed: a coordinate whose rounding error *)
(* is strictly smaller than another's keeps its rounded value; an integer  *)
(* cube is returned as it is.                                              *)
(***************************************************************************)
RoundingError(a) == RatAbs(RatSub(RatInt(RatRound(a)), a))

C20_LargestErrorRecomputed ==
    UtReturned("cubeRound") =>
        LET cube == ut_call.cube
            qDiff == RoundingError(cube.q)
            rDiff == RoundingError(cube.r)
            sDiff == RoundingError(cube.s)
        IN  /\ ut_result.q \in Int
            /\ ut_result.r \in Int
            /\ (RatLess(qDiff, rDiff) \/ RatLess(qDiff, sDiff)) =>
                   ut_result.q = RatRound(cube.q)
            /\ (RatLess(rDiff, qDiff) \/ RatLess(rDiff, sDiff)) =>
                   ut_result.r = RatRound(cube.r)
            /\ (RatLess(sDiff, qDiff) \/ RatLess(sDiff, rDiff)) =>
                   -ut_result.q - ut_result.r = RatRound(cube.s)
            /\ (cube.q.d = 1 /\ cube.r.d = 1) =>
                   ut_result = Hex(cube.q.n, cube.r.n)

\* q has the largest rounding error and is recomputed from r and s
C20_Witness ==
    /\ UtReturned("cubeRound")
    /\ ut_result.q # RatRound(ut_call.cube.q)


\* the rounds of the kMeansClustering call at hand (none when k >= length)
C23_Rounds ==
    IF ut_call.k >= Len(ut_call.embeddings) THEN << >>
    ELSE KMeansTrace(ut_call.embeddings,
                     [i \in 1..ut_call.k |-> ut_call.embeddings[ut_call.draws[i]]],
                     [i \in DOMAIN ut_call.embeddings |-> 0], 0, 100)

RatLeq(a, b) == ~RatLess(b, a)

(***************************************************************************)
(* C24: for bounds with min < max and any projected point (x, y),          *)
(* normalizeUMAP yields nx, ny in [0,1] (points outside the bounds clamp   *)
(* to 0 or 1), so the pixel used for the ideal hex lies in                 *)
(* [margin, canvasWidth-margin] x [margin, canvasHeight-margin], with      *)
(* larger y mapping to smaller py (to the same py where both clamp).       *)
(***************************************************************************)
C24_NormalizedPixel ==
    UtReturned("placeStory.pixel") =>
        LET n == ut_result.n
            pixel == ut_result.pixel
            norm == ut_call.norm
            config == ut_call.config
            inside(v) == /\ RatLeq(RatInt(norm.min_y), v)
                         /\ RatLeq(v, RatInt(norm.max_y))
        IN  /\ RatLeq(RatInt(0), n.nx) /\ RatLeq(n.nx, RatInt(1))
            /\ RatLeq(RatInt(0), n.ny) /\ RatLeq(n.ny, RatInt(1))
            /\ RatLeq(ut_call.x, RatInt(norm.min_x)) => n.nx = RatInt(0)
            /\ RatLeq(RatInt(norm.max_x), ut_call.x) => n.nx = RatInt(1)
            /\ RatLeq(ut_call.y, RatInt(norm.min_y)) => n.ny = RatInt(0)
            /\ RatLeq(RatInt(norm.max_y), ut_call.y) => n.ny = RatInt(1)
            /\ RatLeq(RatInt(config.margin), pixel.px)
            /\ RatLeq(pixel.px, RatInt(config.canvasWidth - config.margin))
            /\ RatLeq(RatInt(config.margin), pixel.py)
            /\ RatLeq(pixel.py, RatInt(config.canvasHeight - config.margin))
            /\ RatLess(ut_call.y, ut_call.y2) =>
                   /\ RatLeq(ut_result.pixel2.py, pixel.py)
                   /\ (inside(ut_call.y) /\ inside(ut_call.y2)) =>
                          RatLess(ut_result.pixel2.py, pixel.py)

\* x lies left of the bounds and is clamped to the left margin; y and y2
\* lie inside the bounds, y2 above y
C24_Witness ==
    /\ UtReturned("placeStory.pixel")
    /\ ut_call.norm = [min_x |-> 0, max_x |-> 1, min_y |-> -1, max_y |-> 1]
    /\ ut_call.x = Rat(-1, 1)
    /\ ut_call.y = Rat(-1, 2)
    /\ ut_call.y2 = Rat(1, 2)
    /\ ut_result.n.nx = RatInt(0)
    /\ ut_result.pixel.px = RatInt(ut_call.config.margin)
    /\ RatLess(ut_result.pixel2.py, ut_result.pixel.py)


\* every component is 0: sqrt(normA) is 0 and the similarity is 0 / 0
IsZeroVector(a) == \A d \in DOMAIN a : a[d] = RatInt(0)

(***************************************************************************)
(* C25: an item whose embedding is the all-zero vector (cosine similarity  *)
(* undefined) is handled as an explicit edge case by the theme assignment: *)
(* it is not silently assigned to a cluster as the by-product of a         *)
(* degenerate distance comparison.  Violated: every comparison             *)
(* `dist < minDistance` of such an item is false on NaN, and the item      *)
(* keeps the initial nearestCentroid = 0 as its cluster.                   *)
(***************************************************************************)
C25_ZeroVectorExplicit ==
    ( /\ UtReturned("kMeansClustering")
      /\ ut_call.k < Len(ut_call.embeddings) )
    => \A i \in DOMAIN ut_call.embeddings :
           ( /\ IsZeroVector(ut_call.embeddings[i])
             /\ \A c \in 1..ut_call.k :
                    cosineSimilarity(ut_call.embeddings[i],
                                     ut_call.embeddings[ut_call.draws[c]]) = NaN )
           => ut_result[i] \notin 0..(ut_call.k - 1)


(***************************************************************************)
(* C26: in every reachable state of the useUMAPPlacement hook, loading is  *)
(* true whenever some computePlacement request has been posted to the      *)
(* worker and its promise has not yet settled, and loading is false once   *)
(* no posted request is unsettled; this holds across overlapping requests  *)
(* and timeouts.  Violated: the timeout of one call sets loading to false  *)
(* while a later call is still pending.                                    *)
(***************************************************************************)
C26_LoadingTracksPending ==
    hk_loading <=> (\E c \in DOMAIN hk_calls : hk_calls[c].promise = "pending")


\* the valid stories of the assignStoriesToThemes call at hand and the
\* cluster indices kMeansClustering produces for them
C27_Valid ==
    LET has(id) == id \in DOMAIN ut_call.embeddings
    IN  SelectSeq(ut_call.stories, has)

C27_Clusters ==
    LET valid == C27_Valid
    IN  kMeansClustering([i \in DOMAIN valid |-> ut_call.embeddings[valid[i]]],
                         Min(Len(ut_call.themes), Len(valid)), ut_call.draws)

(***************************************************************************)
(* C27: in assignStoriesToThemes every cluster index produced by           *)
(* kMeansClustering is smaller than themes.length, so the mapping          *)
(* themes[c % themes.length] never wraps: cluster c is always mapped to    *)
(* themes[c], and two different clusters never share a theme.              *)
(***************************************************************************)
C27_NoWrap ==
    ( /\ UtReturned("assignStoriesToThemes")
      /\ ut_call.themes # << >>
      /\ C27_Valid # << >> )
    => LET valid == C27_Valid
           clusters == C27_Clusters
       IN  /\ \A i \in DOMAIN clusters : clusters[i] < Len(ut_call.themes)
           /\ ut_result = [i \in DOMAIN valid |->
                              <<valid[i], ut_call.themes[clusters[i] + 1]>>]
           /\ \A i, j \in DOMAIN clusters :
                  clusters[i] # clusters[j] => ut_result[i][2] # ut_result[j][2]

\* three valid stories for two themes, both clusters in use
C27_Witness ==
    /\ UtReturned("assignStoriesToThemes")
    /\ Len(ut_call.themes) = 2
    /\ Len(C27_Valid) = 3
    /\ {C27_Clusters[i] : i \in DOMAIN C27_Clusters} = {0, 1}
    /\ {ut_result[i][2] : i \in DOMAIN ut_result} = {<<"theme", 0>>, <<"theme", 1>>}


\* what assignStoriesToThemes() without arguments can do on these stored
\* fields: throw, or return one of these maps
AssignOutcomes(lastEmbeddings, lastThemes) ==
    LET embeddings == IF lastEmbeddings # NULL THEN lastEmbeddings.value
                      ELSE << >>
        themes == IF lastThemes # NULL THEN lastThemes.value ELSE << >>
    IN  IF Len(themes) = 0 \/ DOMAIN embeddings = {}
        THEN {Threw}
        ELSE {[map |-> assignStoriesToThemes(GenStories, embeddings, themes, draws)] :
                 draws \in Draws(Cardinality(DOMAIN embeddings),
                                 Min(Len(themes), Cardinality(DOMAIN embeddings)))}

(***************************************************************************)
(* C30: a StoryDataGenerator.generateEmbeddings or generateThemes call     *)
(* that rejects leaves the generator's stored embeddings and stored themes *)
(* exactly as they were before the call, so a following no-argument        *)
(* assignStoriesToThemes behaves as it would have before the failed call.  *)
(***************************************************************************)
C30_RejectedCallStoresNothing ==
    [][(GnGenerateEmbeddingsThrows \/ GnGenerateThemesThrows) =>
          /\ gn_lastEmbeddings' = gn_lastEmbeddings
          /\ gn_lastThemes' = gn_lastThemes
          /\ AssignOutcomes(gn_lastEmbeddings', gn_lastThemes')
                 = AssignOutcomes(gn_lastEmbeddings, gn_lastThemes)]_vars

\* a call was rejected while embeddings and themes of earlier calls are
\* stored, and the assignment still returns a map from them
C30_Witness ==
    /\ gn_last = "rejected"
    /\ gn_lastEmbeddings # NULL
    /\ gn_lastThemes # NULL
    /\ gn_lastEmbeddings = gn_histEmbeddings
    /\ gn_lastThemes = gn_histThemes
    /\ Threw \notin AssignOutcomes(gn_lastEmbeddings, gn_lastThemes)


(***************************************************************************)
(* EmbSpec: the caching useEmbeddings hook (hooks/useThemes.ts).  A call   *)
(* of generateEmbeddingsForStories runs without interruption up to its     *)
(* return: the request of the inner async function is issued and its       *)
(* promise stored in inFlightRef before anything else can run.  The code   *)
(* after `await generateEmbeddings(...)` runs when the request settles.    *)
(* em_calls[c] records the cache key of call c, whether it returned the    *)
(* cached map ("cached"), the stored promise ("inFlight") or the promise   *)
(* of a request of its own ("new"), and the request behind what it got.    *)
(***************************************************************************)
\* calls of generateEmbeddingsForStories in a run
MaxEmbCalls == 4

EmbInit ==
    /\ HexIdle
    /\ WorkerIdle
    /\ HookIdle
    /\ UtilIdle
    /\ GenIdle
    /\ EmbIdle
    /\ RetryIdle

EmbOthersUnchanged ==
    UNCHANGED <<hexVars, workerVars, hookVars, utilVars, genVars, retryVars>>

\* generateEmbeddingsForStories(stories, apiKey, options) with cache key k
EmCall(k) ==
    /\ Len(em_calls) < MaxEmbCalls
    /\ IF em_cache[k] # 0 THEN
           /\ em_calls' = Append(em_calls,
                  [key |-> k, got |-> "cached", req |-> em_cache[k]])
           /\ UNCHANGED <<em_cache, em_inFlight, em_requests, em_loading, em_error>>
       ELSE IF em_inFlight[k] # 0 THEN
           /\ em_calls' = Append(em_calls,
                  [key |-> k, got |-> "inFlight", req |-> em_inFlight[k]])
           /\ UNCHANGED <<em_cache, em_inFlight, em_requests, em_loading, em_error>>
       ELSE
           /\ em_loading' = TRUE
           /\ em_error' = "null"
           /\ em_requests' = Append(em_requests, [key |-> k, status |-> "pending"])
           /\ em_inFlight' = [em_inFlight EXCEPT ![k] = Len(em_requests) + 1]
           /\ em_calls' = Append(em_calls,
                  [key |-> k, got |-> "new", req |-> Len(em_requests) + 1])
           /\ UNCHANGED em_cache
    /\ EmbOthersUnchanged

\* the options.onError callback of a request under way: one story failed
EmStoryError(r) ==
    /\ r \in DOMAIN em_requests
    /\ em_requests[r].status = "pending"
    /\ em_error' = "story error"
    /\ UNCHANGED <<em_cache, em_inFlight, em_requests, em_calls, em_loading>>
    /\ EmbOthersUnchanged

\* generateEmbeddings of request r resolves: the code after the await
EmFulfil(r) ==
    /\ r \in DOMAIN em_requests
    /\ em_requests[r].status = "pending"
    /\ em_requests' = [em_requests EXCEPT ![r].status = "fulfilled"]
    /\ em_cache' = [em_cache EXCEPT ![em_requests[r].key] = r]
    /\ em_inFlight' = [em_inFlight EXCEPT ![em_requests[r].key] = 0]
    /\ em_loading' = FALSE
    /\ UNCHANGED <<em_calls, em_error>>
    /\ EmbOthersUnchanged

\* mutant: the catch block leaves the in-flight entry in place
EmReject_KeepsInFlight(r) ==
    /\ r \in DOMAIN em_requests
    /\ em_requests[r].status = "pending"
    /\ em_requests' = [em_requests EXCEPT ![r].status = "rejected"]
    /\ em_error' = "request failed"
    /\ em_loading' = FALSE
    /\ UNCHANGED <<em_cache, em_inFlight, em_calls>>
    /\ EmbOthersUnchanged

\* generateEmbeddings of request r rejects: the catch block
EmReject(r) ==
    /\ r \in DOMAIN em_requests
    /\ em_requests[r].status = "pending"
    /\ em_requests' = [em_requests EXCEPT ![r].status = "rejected"]
    /\ em_inFlight' = [em_inFlight EXCEPT ![em_requests[r].key] = 0]
    /\ em_error' = "request failed"
    /\ em_loading' = FALSE
    /\ UNCHANGED <<em_cache, em_calls>>
    /\ EmbOthersUnchanged

EmbNext ==
    \/ \E k \in EmbKeys : EmCall(k)
    \/ \E r \in 1..MaxEmbCalls : EmStoryError(r)
    \/ \E r \in 1..MaxEmbCalls : EmFulfil(r)
    \/ \E r \in 1..MaxEmbCalls : EmReject(r)

EmbSpec == EmbInit /\ [][EmbNext]_vars

\* the requests of key k with that status
EmRequests(k, status) ==
    {r \in DOMAIN em_requests :
        em_requests[r].key = k /\ em_requests[r].status = status}

(***************************************************************************)
(* C28: in the caching useEmbeddings hook, for any interleaving of         *)
(* generateEmbeddingsForStories calls with the same cache key, at most one *)
(* underlying generateEmbeddings request is in flight at a time; calls     *)
(* made while it is in flight receive its promise, calls made after it     *)
(* succeeded receive the cached map without a new request, and after it    *)
(* failed the key is in neither the cache nor the in-flight table so the   *)
(* next call issues a new request.                                         *)
(***************************************************************************)
C28_OneRequestPerKey ==
    /\ [](\A k \in EmbKeys :
            /\ Cardinality(EmRequests(k, "pending")) <= 1
            /\ Cardinality(EmRequests(k, "fulfilled")) <= 1
            /\ em_inFlight[k] # 0 <=> EmRequests(k, "pending") = {em_inFlight[k]}
            /\ em_inFlight[k] = 0 <=> EmRequests(k, "pending") = {}
            /\ em_cache[k] # 0 <=> EmRequests(k, "fulfilled") = {em_cache[k]}
            /\ em_cache[k] = 0 <=> EmRequests(k, "fulfilled") = {})
    /\ [][Len(em_calls') = Len(em_calls) + 1 =>
              LET call == em_calls'[Len(em_calls')]
                  k == call.key
              IN  IF EmRequests(k, "pending") # {}
                  THEN /\ call.got = "inFlight"
                       /\ {call.req} = EmRequests(k, "pending")
                       /\ em_requests' = em_requests
                  ELSE IF EmRequests(k, "fulfilled") # {}
                  THEN /\ call.got = "cached"
                       /\ {call.req} = EmRequests(k, "fulfilled")
                       /\ em_requests' = em_requests
                  ELSE /\ call.got = "new"
                       /\ call.req = Len(em_requests) + 1
                       /\ em_requests' =
                              Append(em_requests, [key |-> k, status |-> "pending"])
                       /\ em_inFlight'[k] = call.req]_vars

\* four calls with one key: the second one shared the first one's request,
\* which failed; the third issued a new request, which succeeded; the
\* fourth got the cached map
C28_Witness ==
    /\ Len(em_calls) = 4
    /\ \A c \in 1..4 : em_calls[c].key = 1
    /\ em_requests = <<[key |-> 1, status |-> "rejected"],
                       [key |-> 1, status |-> "fulfilled"]>>
    /\ em_calls[1].got = "new" /\ em_calls[1].req = 1
    /\ em_calls[2].got = "inFlight" /\ em_calls[2].req = 1
    /\ em_calls[3].got = "new" /\ em_calls[3].req = 2
    /\ em_calls[4].got = "cached" /\ em_calls[4].req = 2
    /\ em_inFlight[1] = 0


(***************************************************************************)
(* RetrySpec: one call of a function built on the fetch retry loop,        *)
(* generateEmbeddingsBatchClient or generateThemes (utils/themes.ts).  The *)
(* code is cut at its awaits: the backoff timer, the fetch, the wait after *)
(* a 429.  A fetch ends in one of ResponseKinds:                           *)
(*   "ok"       response.ok and a body of the expected format              *)
(*   "invalid"  response.ok and a body that does not parse (JSON.parse or  *)
(*              the format check throws)                                   *)
(*   "429"      rate limited                                               *)
(*   "status"   another status that is not ok                              *)
(*   "network"  fetch itself rejects                                       *)
(* Timers fire and a fetch settles: the specification is weakly fair.      *)
(***************************************************************************)
\* the default of the maxRetries parameter / the local constant
maxRetries == 3

ResponseKinds == {"ok", "invalid", "429", "status", "network"}

\* generateThemes returns [] at once for no stories
RetryFunctions ==
    {"generateEmbeddingsBatchClient", "generateThemes", "generateThemes(no stories)"}

RetryInit ==
    /\ HexIdle
    /\ WorkerIdle
    /\ HookIdle
    /\ UtilIdle
    /\ GenIdle
    /\ EmbIdle
    /\ rt_fn \in RetryFunctions
    /\ rt_pc = "start"
    /\ rt_attempt = 0
    /\ rt_responses = << >>
    /\ rt_lastError = "null"
    /\ rt_outcome = NULL

RetryOthersUnchanged ==
    UNCHANGED <<hexVars, workerVars, hookVars, utilVars, genVars, embVars>>

\* the call up to its first await: attempt 0 has no backoff and fetches
RtBegin ==
    /\ rt_pc = "start"
    /\ IF rt_fn = "generateThemes(no stories)"
       THEN /\ rt_pc' = "done"
            /\ rt_outcome' = [resolved |-> "empty"]
       ELSE /\ rt_pc' = "awaiting"
            /\ UNCHANGED rt_outcome
    /\ UNCHANGED <<rt_fn, rt_attempt, rt_responses, rt_lastError>>
    /\ RetryOthersUnchanged

\* the backoff timer of an attempt > 0 fires: the attempt fetches
RtBackoffOver ==
    /\ rt_pc = "backoff"
    /\ rt_pc' = "awaiting"
    /\ UNCHANGED <<rt_fn, rt_attempt, rt_responses, rt_lastError, rt_outcome>>
    /\ RetryOthersUnchanged

\* the message of the error an attempt throws on that response
ErrorOf(kind) ==
    IF kind = "429" THEN "Rate limited after 3 attempts"
    ELSE IF kind = "status" THEN "API error"
    ELSE IF kind = "invalid" THEN "Invalid response format"
    ELSE "fetch failed"

\* mutant: a failed attempt is always followed by another one
RtRespond_RetriesForever(kind) ==
    /\ rt_pc = "awaiting"
    /\ rt_responses' = Append(rt_responses, kind)
    /\ IF kind = "ok" THEN
           /\ rt_pc' = "done"
           /\ rt_outcome' = [resolved |-> "parsed"]
           /\ UNCHANGED <<rt_attempt, rt_lastError>>
       ELSE
           /\ rt_lastError' = ErrorOf(kind)
           /\ rt_attempt' = rt_attempt + 1
           /\ rt_pc' = "backoff"
           /\ UNCHANGED rt_outcome
    /\ UNCHANGED rt_fn
    /\ RetryOthersUnchanged

\* the fetch of the attempt settles: the rest of the try block and the
\* catch block
RtRespond(kind) ==
    /\ rt_pc = "awaiting"
    /\ rt_responses' = Append(rt_responses, kind)
    /\ IF kind = "ok" THEN
           /\ rt_pc' = "done"
           /\ rt_outcome' = [resolved |-> "parsed"]
           /\ UNCHANGED <<rt_attempt, rt_lastError>>
       ELSE IF kind = "429" /\ rt_attempt < maxRetries - 1 THEN
           /\ rt_pc' = "rateWait"
           /\ UNCHANGED <<rt_attempt, rt_lastError, rt_outcome>>
       ELSE
           /\ rt_lastError' = ErrorOf(kind)
           /\ IF rt_attempt = maxRetries - 1
              THEN /\ rt_pc' = "done"
                   /\ rt_outcome' = [rejected |-> ErrorOf(kind)]
                   /\ UNCHANGED rt_attempt
              ELSE /\ rt_attempt' = rt_attempt + 1
                   /\ rt_pc' = "backoff"
                   /\ UNCHANGED rt_outcome
    /\ UNCHANGED rt_fn
    /\ RetryOthersUnchanged

\* the wait after a 429 is over: `continue`
RtRateWaitOver ==
    /\ rt_pc = "rateWait"
    /\ rt_attempt' = rt_attempt + 1
    /\ rt_pc' = "backoff"
    /\ UNCHANGED <<rt_fn, rt_responses, rt_lastError, rt_outcome>>
    /\ RetryOthersUnchanged

RetryNext ==
    \/ RtBegin
    \/ RtBackoffOver
    \/ \E kind \in ResponseKinds : RtRespond(kind)
    \/ RtRateWaitOver

RetrySpec == RetryInit /\ [][RetryNext]_vars /\ WF_vars(RetryNext)

\* the HTTP requests issued so far
RtRequests == Len(rt_responses) + (IF rt_pc = "awaiting" THEN 1 ELSE 0)

(***************************************************************************)
(* C29 as stated: no further request is issued after the first successful  *)
(* response.  Violated when a response that is ok carries a body that does *)
(* not parse: the error is caught by the loop and the request is repeated. *)
(***************************************************************************)
C29_Original ==
    \A i \in DOMAIN rt_responses :
        rt_responses[i] \in {"ok", "invalid"} => RtRequests = i

(***************************************************************************)
(* C29: each call of generateEmbeddingsBatchClient (and of generateThemes  *)
(* in utils/themes.ts) issues at most maxRetries = 3 HTTP requests, issues *)
(* no further request after the first response that is ok and has a body   *)
(* of the expected format (an ok response with another body counts as a    *)
(* failed attempt), and always terminates: with the parsed result on       *)
(* success, or by rejecting with the last error once the third attempt has *)
(* failed or been rate-limited (429).                                      *)
(***************************************************************************)
C29_BoundedRetries ==
    /\ [](/\ RtRequests <= maxRetries
          /\ \A i \in DOMAIN rt_responses :
                 rt_responses[i] = "ok" =>
                     /\ RtRequests = i
                     /\ rt_pc = "done"
                     /\ rt_outcome = [resolved |-> "parsed"]
          /\ rt_pc = "done" <=> rt_outcome # NULL
          /\ (rt_pc = "done" /\ rt_fn # "generateThemes(no stories)") =>
                 /\ rt_responses # << >>
                 /\ IF rt_responses[Len(rt_responses)] = "ok"
                    THEN rt_outcome = [resolved |-> "parsed"]
                    ELSE /\ Len(rt_responses) = maxRetries
                         /\ rt_outcome =
                                [rejected |-> ErrorOf(rt_responses[maxRetries])]
                         /\ rt_lastError = rt_outcome.rejected)
    /\ <>(rt_pc = "done")

\* rate-limited, then an ok response with a malformed body, then a third
\* request that succeeds
C29_Witness ==
    /\ rt_fn = "generateThemes"
    /\ rt_pc = "done"
    /\ rt_responses = <<"429", "invalid", "ok">>
    /\ rt_outcome = [resolved |-> "parsed"]

=============================================================================
